---- MODULE Spec2Model ----
(***************************************************************************)
(* A model of the running-style / pace pipeline of keiba-yosou:            *)
(*   pace_data_parser.py       parse_pace_data, calculate_running_style_stats *)
(*   running_style_analyzer.py determine_running_style, RunningStyleAnalyzer  *)
(*   horse_evaluator.py        HorseEvaluator                               *)
(*   utils.py                  validate_horse_data, CacheManager            *)
(*   betting_strategy.py       BettingStrategy                              *)
(*                                                                         *)
(* Numbers.  Python floats are modelled in fixed point:                    *)
(*   averages, 3F times, features      hundredths      (33.8 is 3380)      *)
(*   z-scores                          thousandths                         *)
(*   tanh values, multipliers          ten-thousandths (1.0 is 10000)      *)
(*   adjustment_scale                  hundred-thousandths (0.08 is 8000)  *)
(*   bias_threshold                    hundredths      (0.12 is 12)        *)
(*   sub-scores of the evaluator       thousandths of a point              *)
(*   odds                              tenths          (3.5 is 35)         *)
(*   final_score                       hundredths of a point               *)
(*   dates                             day numbers                         *)
(*   budgets, bet amounts              yen                                 *)
(*   times of the cache entries        ticks of the clock                  *)
(* An optional value (Python None or a value) is the empty sequence or a   *)
(* one-element sequence.  Text is a sequence of one-character strings.     *)
(***************************************************************************)
EXTENDS Integers, Sequences, FiniteSets, TLC

VARIABLES
    pc,               \* position of the running scenario
    time_margin_pace, \* parse_pace_data: the token
    parsed,           \* parse_pace_data: what the call produced
    style_args,       \* determine_running_style: the arguments
    style,            \* determine_running_style: the label returned
    analyzer,         \* RunningStyleAnalyzer: top_n, adjustment_scale, bias_threshold
    field,            \* RunningStyleAnalyzer.analyze: the horses passed in
    analysis,         \* RunningStyleAnalyzer.analyze: what it returned
    current_race,     \* HorseEvaluator.evaluate_horses: the race_data passed in
    anauma_db,        \* FastAnaumaDB.cache: the dark-horse rows by horse name
    _anauma_cache,    \* the module's cache of dark-horse searches
    now,              \* what the wall clock shows: a day, or a tick for CacheManager
    results,          \* what the calls of evaluate_horses returned, in order
    pool,             \* the worker pool of the call of evaluate_horses under way
    history,          \* calculate_running_style_stats: the past races passed in
    style_stats,      \* calculate_running_style_stats: the dict returned
    evaluators,       \* the FastAnaumaDB.cache of each HorseEvaluator built, in order
    calls,            \* the calls of evaluate_horses made: evaluator, race, day
    cache_manager,    \* CacheManager: _cache, max_entries, hit_count, miss_count
    config_budget,    \* BettingStrategy: total_budget of the config
    evaluation,       \* BettingStrategy.generate_betting_plan: the argument
    betting_plan      \* BettingStrategy.generate_betting_plan: what it returned

vars == <<pc, time_margin_pace, parsed, style_args, style, analyzer, field,
          analysis, current_race, anauma_db, _anauma_cache, now, results,
          pool, history, style_stats, evaluators, calls, cache_manager,
          config_budget, evaluation, betting_plan>>

----------------------------------------------------------------------------
(* Optional values and small helpers *)

None == <<>>

Some(v) == <<v>>

IsNone(x) == x = <<>>

Val(x) == x[1]

\* Python truthiness of an optional number: None and 0 are falsy.
Truthy(x) == x # <<>> /\ x[1] # 0

Max(a, b) == IF a >= b THEN a ELSE b

Min(a, b) == IF a <= b THEN a ELSE b

Abs(a) == IF a >= 0 THEN a ELSE -a

RECURSIVE SumSeq(_)
SumSeq(s) == IF s = <<>> THEN 0 ELSE Head(s) + SumSeq(Tail(s))

RECURSIVE Flatten(_)
Flatten(ss) == IF ss = <<>> THEN <<>> ELSE Head(ss) \o Flatten(Tail(ss))

----------------------------------------------------------------------------
(* Bounds of the model *)

MaxParts == 4

MaxCount == 20

MaxHorses == 3

MaxTally == 1

MaxRunners == 3

MaxCalls == 2

MaxTicks == 1

ClockStep == 30

\* The longest history of the horse of a one-horse race.
MaxHistory == 3

\* os.cpu_count(): the number of worker threads of the pool.
PoolSize == 2

----------------------------------------------------------------------------
(* pace_data_parser.parse_pace_data *)

Digits == {"0", "1", "2", "3", "4", "5", "6", "7", "8", "9"}

DigitVal(c) ==
    CASE c = "0" -> 0 [] c = "1" -> 1 [] c = "2" -> 2 [] c = "3" -> 3
      [] c = "4" -> 4 [] c = "5" -> 5 [] c = "6" -> 6 [] c = "7" -> 7
      [] c = "8" -> 8 [] c = "9" -> 9

IsDigit(c) == c \in Digits

IsSpace(c) == c = " "

IsDigitOrDot(c) == c \in Digits \/ c = "."

\* The end (last index) of the longest run of characters satisfying the
\* class that starts at index i; i - 1 when s[i] is not in the class.
RECURSIVE DigitRunEnd(_, _)
DigitRunEnd(s, i) ==
    IF i <= Len(s) /\ IsDigit(s[i]) THEN DigitRunEnd(s, i + 1) ELSE i - 1

RECURSIVE SpaceRunEnd(_, _)
SpaceRunEnd(s, i) ==
    IF i <= Len(s) /\ IsSpace(s[i]) THEN SpaceRunEnd(s, i + 1) ELSE i - 1

RECURSIVE NumberRunEnd(_, _)
NumberRunEnd(s, i) ==
    IF i <= Len(s) /\ IsDigitOrDot(s[i]) THEN NumberRunEnd(s, i + 1) ELSE i - 1

\* int() of a string of decimal digits.
RECURSIVE ParseInt(_)
ParseInt(ds) ==
    IF ds = <<>> THEN 0
    ELSE ParseInt(SubSeq(ds, 1, Len(ds) - 1)) * 10 + DigitVal(ds[Len(ds)])

\* The greedy tail (?:-\d+)* of the corner pattern: the integers that follow
\* index i (the end of the previous digit run), with the index the match ends.
RECURSIVE CornerTail(_, _)
CornerTail(s, i) ==
    IF i + 2 <= Len(s) /\ s[i + 1] = "-" /\ IsDigit(s[i + 2])
    THEN LET e == DigitRunEnd(s, i + 2)
             rest == CornerTail(s, e)
         IN  [positions |-> <<ParseInt(SubSeq(s, i + 2, e))>> \o rest.positions,
              end |-> rest.end]
    ELSE [positions |-> <<>>, end |-> i]

\* re.search(r'(\d+(?:-\d+)+)', s) from index i on, split on '-' and
\* converted: the integers of the leftmost corner run, or <<>> without one.
RECURSIVE CornerPositions(_, _)
CornerPositions(s, i) ==
    IF i > Len(s) THEN <<>>
    ELSE IF ~IsDigit(s[i]) THEN CornerPositions(s, i + 1)
    ELSE LET e == DigitRunEnd(s, i)
             tail == CornerTail(s, e)
         IN  IF tail.positions # <<>>
             THEN <<ParseInt(SubSeq(s, i, e))>> \o tail.positions
             ELSE CornerPositions(s, e + 1)

\* int(sum(positions) / len(positions)): int() truncates toward zero.
TruncatedMean(positions) == SumSeq(positions) \div Len(positions)

\* re.search(r'3F\s+([\d.]+)', s) from index i on: the captured group of the
\* leftmost match, or None without a match.
RECURSIVE Last3FGroup(_, _)
Last3FGroup(s, i) ==
    IF i + 1 > Len(s) THEN None
    ELSE IF s[i] = "3" /\ s[i + 1] = "F"
            /\ SpaceRunEnd(s, i + 2) >= i + 2
            /\ NumberRunEnd(s, SpaceRunEnd(s, i + 2) + 1) > SpaceRunEnd(s, i + 2)
         THEN Some(SubSeq(s, SpaceRunEnd(s, i + 2) + 1,
                          NumberRunEnd(s, SpaceRunEnd(s, i + 2) + 1)))
         ELSE Last3FGroup(s, i + 1)

CountDots(g) == Cardinality({k \in 1..Len(g) : g[k] = "."})

CountDigits(g) == Cardinality({k \in 1..Len(g) : IsDigit(g[k])})

\* float() of a string of digits and dots raises ValueError unless the string
\* holds at least one digit and at most one dot.
FloatRaises(g) == CountDots(g) > 1 \/ CountDigits(g) = 0

DotIndex(g) ==
    IF CountDots(g) = 0 THEN Len(g) + 1
    ELSE CHOOSE k \in 1..Len(g) : g[k] = "."

\* float() of a well-formed string, in hundredths (later digits dropped).
ParseFloat(g) ==
    LET d == DotIndex(g)
        whole == ParseInt(SubSeq(g, 1, d - 1))
        frac == SubSeq(g, d + 1, Len(g))
        tenths == IF Len(frac) >= 1 THEN DigitVal(frac[1]) ELSE 0
        hundredths == IF Len(frac) >= 2 THEN DigitVal(frac[2]) ELSE 0
    IN  whole * 100 + tenths * 10 + hundredths

\* The outcome of parse_pace_data(token): the pair it returns, or the
\* ValueError that float() lets escape.
parse_pace_data(token) ==
    IF token = <<>>
    THEN [raised |-> FALSE, avg_pos |-> None, last_3f |-> None]
    ELSE LET positions == CornerPositions(token, 1)
             avg == IF positions # <<>> THEN Some(TruncatedMean(positions))
                    ELSE None
             group == Last3FGroup(token, 1)
         IN  IF group # None /\ FloatRaises(Val(group))
             THEN [raised |-> TRUE, avg_pos |-> None, last_3f |-> None]
             ELSE [raised |-> FALSE, avg_pos |-> avg,
                   last_3f |-> IF group # None THEN Some(ParseFloat(Val(group)))
                               ELSE None]

\* The pieces the tokens of the model are put together from.
Fragments ==
    { <<"1", ":", "5", "9", ".", "3", " ">>,
      <<"3", "-", "3", "-", "4", " ">>,
      <<"3", "-", "4", "-", "4", " ">>,
      <<"3", "F", " ">>,
      <<"3", "F">>,
      <<"3", "3", ".", "8">>,
      <<".">> }

\* time_margin_pace is up to MaxParts fragments put together.
IsSampleToken(token) ==
    \E n \in 0..MaxParts : \E parts \in [1..n -> Fragments] : token = Flatten(parts)

----------------------------------------------------------------------------
(* running_style_analyzer.determine_running_style *)

ESCAPE == "ESCAPE"
LEADING == "LEADING"
CHASE == "CHASE"
PURSUE == "PURSUE"
UNKNOWN == "UNKNOWN"

RUNNING_STYLE_LABELS == {ESCAPE, LEADING, CHASE, PURSUE, UNKNOWN}

\* front_ratio = front_count / total compared with 0.75, 0.40 and 0.15: the
\* counts are small integers, so the float comparison is the exact one.
determine_running_style(front_count, close_count, avg_pos, avg_up) ==
    LET total == front_count + close_count
    IN  IF total = 0 THEN UNKNOWN
        ELSE IF front_count * 100 >= 75 * total
             THEN IF Truthy(avg_pos) /\ Val(avg_pos) <= 500
                  THEN ESCAPE ELSE LEADING
        ELSE IF front_count * 100 >= 40 * total THEN LEADING
        ELSE IF front_count * 100 >= 15 * total THEN CHASE
        ELSE PURSUE

\* Average finish positions (hundredths) the model draws from.
AvgPosValues == {None, Some(0), Some(420), Some(500), Some(510)}

AvgUpValues == {None, Some(3380)}

----------------------------------------------------------------------------
(* Arithmetic helpers of the fixed-point model *)

\* a / b rounded to the nearest integer, halves away from zero (b > 0).
RoundDiv(a, b) ==
    IF a >= 0 THEN (2 * a + b) \div (2 * b) ELSE -((2 * (-a) + b) \div (2 * b))

\* a / b rounded to the nearest integer, halves to the even neighbour, as
\* Python's round() does (b > 0).
RoundHalfEven(a, b) ==
    LET q == a \div b
        r == a % b
    IN  IF 2 * r < b THEN q
        ELSE IF 2 * r > b THEN q + 1
        ELSE IF q % 2 = 0 THEN q ELSE q + 1

RECURSIVE SqrtSearch(_, _, _)
SqrtSearch(n, lo, hi) ==
    IF lo >= hi THEN lo
    ELSE LET mid == (lo + hi + 1) \div 2
         IN  IF mid * mid <= n THEN SqrtSearch(n, mid, hi)
             ELSE SqrtSearch(n, lo, mid - 1)

\* The integer square root (floor) of n, 0 <= n < 2^31.
ISqrt(n) == SqrtSearch(n, 0, 46340)

\* q > 0 scaled up by powers of 4 (m by powers of 2) until it has 29 bits or
\* more, so that the square root of q keeps four to five digits.
RECURSIVE ScaleUp(_, _)
ScaleUp(q, m) ==
    IF q >= 268435456 THEN [q |-> q, m |-> m] ELSE ScaleUp(q * 4, m * 2)

----------------------------------------------------------------------------
(* running_style_analyzer._calculate_z_scores *)

\* sum over j of (v - values[j]) = n * (v - mean(values))
Deviation(values, v) ==
    Len(values) * v - SumSeq(values)

\* sum over pairs i < j of (values[i] - values[j])^2 = (n * pstdev(values))^2
RECURSIVE PairSquares(_)
PairSquares(values) ==
    IF Len(values) <= 1 THEN 0
    ELSE LET v == Head(values)
             rest == Tail(values)
         IN  SumSeq([j \in 1..Len(rest) |-> (v - rest[j]) * (v - rest[j])])
                + PairSquares(rest)

\* (v - mu) / sigma for every v, in thousandths; all 0 when sigma is 0 (the
\* values are all equal) and [] for no values.  (v - mu) / sigma is
\* Deviation / sqrt(PairSquares).
_calculate_z_scores(values) ==
    IF values = <<>> THEN <<>>
    ELSE IF PairSquares(values) = 0 THEN [i \in 1..Len(values) |-> 0]
    ELSE LET up == ScaleUp(PairSquares(values), 1)
             root == ISqrt(up.q)
         IN  [i \in 1..Len(values) |->
                 RoundDiv(Deviation(values, values[i]) * up.m * 1000, root)]

----------------------------------------------------------------------------
(* running_style_analyzer.RunningStyleAnalyzer.analyze *)

FRONT_FAVORED == "FRONT_FAVORED"
CLOSER_FAVORED == "CLOSER_FAVORED"
AVERAGE == "AVERAGE"

PACE_LABELS == {FRONT_FAVORED, CLOSER_FAVORED, AVERAGE}

\* math.tanh at 0, 0.05, 0.10, ... 5.50, in ten-thousandths.
TanhTable ==
    << 0, 500, 997, 1489, 1974, 2449, 2913, 3364, 3799, 4219,
       4621, 5005, 5370, 5717, 6044, 6351, 6640, 6911, 7163, 7398,
       7616, 7818, 8005, 8178, 8337, 8483, 8617, 8741, 8854, 8957,
       9051, 9138, 9217, 9289, 9354, 9414, 9468, 9517, 9562, 9603,
       9640, 9674, 9705, 9732, 9757, 9780, 9801, 9820, 9837, 9852,
       9866, 9879, 9890, 9901, 9910, 9919, 9926, 9933, 9940, 9945,
       9951, 9955, 9959, 9963, 9967, 9970, 9973, 9975, 9978, 9980,
       9982, 9984, 9985, 9986, 9988, 9989, 9990, 9991, 9992, 9993,
       9993, 9994, 9995, 9995, 9996, 9996, 9996, 9997, 9997, 9997,
       9998, 9998, 9998, 9998, 9998, 9999, 9999, 9999, 9999, 9999,
       9999, 9999, 9999, 9999, 9999, 9999, 10000, 10000, 10000, 10000,
       10000 >>

\* math.tanh(x), x in thousandths, result in ten-thousandths: the table,
\* interpolated linearly (within 0.0004 of tanh).
Tanh(x) ==
    LET a == Abs(x)
        i == a \div 50
        t == IF a >= 5500 THEN 10000
             ELSE TanhTable[i + 1]
                  + RoundDiv((TanhTable[i + 2] - TanhTable[i + 1]) * (a % 50), 50)
    IN  IF x >= 0 THEN t ELSE -t

\* s[:n] of Python: the first n items, or all but the last -n for n < 0.
Slice(s, n) ==
    IF n >= 0 THEN SubSeq(s, 1, Min(n, Len(s)))
    ELSE SubSeq(s, 1, Max(0, Len(s) + n))

\* values with v put in after the last item that is >= v: one step of a
\* stable sort into descending order.
RECURSIVE InsertDesc(_, _)
InsertDesc(sorted, v) ==
    IF sorted = <<>> THEN <<v>>
    ELSE IF Head(sorted) >= v THEN <<Head(sorted)>> \o InsertDesc(Tail(sorted), v)
    ELSE <<v>> \o sorted

\* sorted(values, reverse=True)
RECURSIVE SortedDesc(_)
SortedDesc(values) ==
    IF values = <<>> THEN <<>>
    ELSE InsertDesc(SortedDesc(SubSeq(values, 1, Len(values) - 1)),
                    values[Len(values)])

\* sum(max(0, z) for the top_n largest z), lines 192-201
TopSumNoClipBug(z_scores, top_n) == SumSeq(Slice(SortedDesc(z_scores), top_n))

TopSum(z_scores, top_n) ==
    LET top == Slice(SortedDesc(z_scores), top_n)
    IN  SumSeq([i \in 1..Len(top) |-> Max(0, top[i])])

\* The front feature of a horse, in 1/4000: front_count plus
\* max(0, (11 - avg_pos) / 10) * 0.25 when avg_pos is truthy.
FrontFeature(h) ==
    h.front_count * 4000
        + (IF Truthy(h.avg_pos) THEN Max(0, 1100 - Val(h.avg_pos)) ELSE 0)

\* The close feature of a horse, in 1/1000: close_count plus
\* max(0, (40 - avg_up) / 6) * 0.6 when avg_up is truthy.
CloseFeature(h) ==
    h.close_count * 1000
        + (IF Truthy(h.avg_up) THEN Max(0, 4000 - Val(h.avg_up)) ELSE 0)

\* The pace label of lines 204-209; the sums in thousandths, the threshold
\* in hundredths.  The comparison is the exact one: the rounding noise of
\* the float sums (about 1e-15) decides the label only when the two sides
\* are equal as real numbers.
PaceLabelGeBug(front_top_sum, close_top_sum, bias_threshold) ==
    IF front_top_sum * 100 >= close_top_sum * (100 + bias_threshold)
    THEN FRONT_FAVORED
    ELSE IF close_top_sum * 100 >= front_top_sum * (100 + bias_threshold)
    THEN CLOSER_FAVORED
    ELSE AVERAGE

PaceLabel(front_top_sum, close_top_sum, bias_threshold) ==
    IF front_top_sum * 100 > close_top_sum * (100 + bias_threshold)
    THEN FRONT_FAVORED
    ELSE IF close_top_sum * 100 > front_top_sum * (100 + bias_threshold)
    THEN CLOSER_FAVORED
    ELSE AVERAGE

\* max_adjustment = min(0.10, adjustment_scale * 1.25), in 1e-9
MaxAdjustmentNoCapBug(adjustment_scale) == adjustment_scale * 12500

MaxAdjustment(adjustment_scale) == Min(100000000, adjustment_scale * 12500)

\* The multiplier of one horse, lines 216-230, in ten-thousandths.
MultiplierClampSwappedBug(pace_label, fz, cz, adjustment_scale) ==
    LET raw_diff == IF pace_label = CLOSER_FAVORED THEN cz - fz
                    ELSE IF pace_label = FRONT_FAVORED THEN fz - cz
                    ELSE 0
        scaled == Tanh(raw_diff)
        max_adjustment == MaxAdjustment(adjustment_scale)
        clipped == Min(-max_adjustment,
                       Max(max_adjustment, scaled * adjustment_scale))
    IN  10000 + RoundHalfEven(clipped, 100000)

Multiplier(pace_label, fz, cz, adjustment_scale) ==
    LET raw_diff == IF pace_label = CLOSER_FAVORED THEN cz - fz
                    ELSE IF pace_label = FRONT_FAVORED THEN fz - cz
                    ELSE 0
        scaled == Tanh(raw_diff)
        max_adjustment == MaxAdjustment(adjustment_scale)
        clipped == Max(-max_adjustment,
                       Min(max_adjustment, scaled * adjustment_scale))
    IN  10000 + RoundHalfEven(clipped, 100000)

\* analyze(horses) of an analyzer self = [top_n, adjustment_scale,
\* bias_threshold]: (pace_label, adjustments, metadata).  The dicts keyed by
\* horse name are functions on the names of the field; of two horses with
\* one name the later one's entry is the one a dict keeps.
analyze(self, horses) ==
    LET names == {horses[i].name : i \in 1..Len(horses)}
        index(name) ==
            CHOOSE i \in 1..Len(horses) :
                /\ horses[i].name = name
                /\ \A j \in 1..Len(horses) : horses[j].name = name => j <= i
        running_styles ==
            [name \in names |->
                LET h == horses[index(name)]
                IN  determine_running_style(h.front_count, h.close_count,
                                            h.avg_pos, h.avg_up)]
        front_z_scores ==
            _calculate_z_scores([i \in 1..Len(horses) |-> FrontFeature(horses[i])])
        close_z_scores ==
            _calculate_z_scores([i \in 1..Len(horses) |-> CloseFeature(horses[i])])
        front_top_sum == TopSum(front_z_scores, self.top_n)
        close_top_sum == TopSum(close_z_scores, self.top_n)
        pace_label == PaceLabel(front_top_sum, close_top_sum, self.bias_threshold)
    IN  [pace_label |-> pace_label,
         adjustments |->
            [name \in names |->
                Multiplier(pace_label, front_z_scores[index(name)],
                           close_z_scores[index(name)], self.adjustment_scale)],
         metadata |->
            [running_styles |-> running_styles,
             front_z_scores |-> [name \in names |-> front_z_scores[index(name)]],
             close_z_scores |-> [name \in names |-> close_z_scores[index(name)]],
             front_top_sum |-> front_top_sum,
             close_top_sum |-> close_top_sum,
             pace_label |-> pace_label]]

----------------------------------------------------------------------------
(* pace_data_parser.calculate_running_style_stats *)

\* Characters of the race records that are not ASCII: the counter for a
\* finishing position, the counter for runners, and the "win" of a class name.
CHAKU == "chaku"
TOU == "tou"
SHO == "sho"

\* re.search(r'(\d+)chaku', pos_str) from index i on, converted by int():
\* the digits of the leftmost digit run that CHAKU follows, or None.
RECURSIVE FinishPosition(_, _)
FinishPosition(pos_str, i) ==
    IF i > Len(pos_str) THEN None
    ELSE IF ~IsDigit(pos_str[i]) THEN FinishPosition(pos_str, i + 1)
    ELSE LET e == DigitRunEnd(pos_str, i)
         IN  IF e + 1 <= Len(pos_str) /\ pos_str[e + 1] = CHAKU
             THEN Some(ParseInt(SubSeq(pos_str, i, e)))
             ELSE FinishPosition(pos_str, e + 1)

\* The values of the optional items of seq that are not None, in order.
RECURSIVE Present(_)
Present(seq) ==
    IF seq = <<>> THEN <<>>
    ELSE Head(seq) \o Present(Tail(seq))

\* sum(values) / len(values) in units of 1/scale of the values' unit, or
\* None for no values.
MeanOrNone(values, scale) ==
    IF values = <<>> THEN None
    ELSE Some(RoundDiv(SumSeq(values) * scale, Len(values)))

\* The dict calculate_running_style_stats returns once the races are
\* parsed: pace[i] is what parse_pace_data gave for race i and positions
\* are the finishing positions found.  The averages are in hundredths.
StyleStats(pace, positions) ==
    [raised |-> \E i \in 1..Len(pace) : pace[i].raised,
     front_count |->
        Cardinality({i \in 1..Len(pace) :
                        pace[i].avg_pos # None /\ Val(pace[i].avg_pos) <= 5}),
     close_count |->
        Cardinality({i \in 1..Len(pace) :
                        pace[i].avg_pos # None /\ Val(pace[i].avg_pos) > 5}),
     avg_up |-> MeanOrNone(Present([i \in 1..Len(pace) |-> pace[i].last_3f]), 1),
     avg_pos |-> MeanOrNone(positions, 100)]

\* Tallies and averages over every race of the history.
calculate_running_style_statsAllRacesBug(recent_races) ==
    StyleStats(
        [i \in 1..Len(recent_races) |->
            parse_pace_data(recent_races[i].time_margin_pace)],
        Present([i \in 1..Len(recent_races) |->
                    FinishPosition(recent_races[i].position_runners_pop, 1)]))

\* calculate_running_style_stats(recent_races): the tallies and averages
\* of the first five races, or the ValueError parse_pace_data lets escape.
calculate_running_style_stats(recent_races) ==
    StyleStats(
        [i \in 1..Len(Slice(recent_races, 5)) |->
            parse_pace_data(recent_races[i].time_margin_pace)],
        Present([i \in 1..Len(Slice(recent_races, 5)) |->
                    FinishPosition(recent_races[i].position_runners_pop, 1)]))

----------------------------------------------------------------------------
(* horse_evaluator.HorseEvaluator: the sub-scores, in thousandths of a point *)
(*                                                                          *)
(* A past race is a record: time_margin_pace and position_runners_pop (text,*)
(* empty when absent), finish (optional), result (18 when absent), runners  *)
(* (16 when absent), time_margin (tenths of a second, 10 when absent),      *)
(* distance (0 when absent), venue and track_condition ("" when absent),    *)
(* date (the day number the text denotes; None when absent or not a date),  *)
(* race and class (text).  A horse is a record: name, number, odds (tenths, *)
(* absent when the entry has no 'odds' key), weight (0 when absent),        *)
(* weight_change, recent_races.                                             *)

\* d.get(key, default) of a dict d
Get(d, key, default) == IF key \in DOMAIN d THEN d[key] ELSE default

\* race.get('finish', race.get('result', 18))
FinishOf(race) ==
    IF race.finish # None THEN Val(race.finish) ELSE race.result

\* The weights of the five most recent races, in tenths.
RaceWeights == <<15, 12, 10, 8, 5>>

\* The score of one past race, lines 215-224.
RaceScore(race) ==
    LET result == FinishOf(race)
        margin == race.time_margin
    IN  IF result = 1
        THEN LET base_score == 100000 + Min(20000, margin * 500)
             IN  IF race.runners >= 16 THEN (base_score * 12) \div 10
                 ELSE IF race.runners <= 10 THEN (base_score * 9) \div 10
                 ELSE base_score
        ELSE Max(30000, 100000 - (result - 1) * 8000)
                + Max(-15000, (margin - 5) * (-300))

\* The number of wins the history starts with, lines 230-235.
RECURSIVE ConsecutiveWins(_)
ConsecutiveWins(races) ==
    IF races = <<>> \/ FinishOf(Head(races)) # 1 THEN 0
    ELSE 1 + ConsecutiveWins(Tail(races))

\* The trend of lines 246-265, in points: races[i] against races[i-1] for
\* i = 1, 2 of Python (2, 3 here), by the 'result' key.
Trend(races) ==
    LET step(i) == IF races[i].result < races[i - 1].result THEN 15
                   ELSE IF races[i].result > races[i - 1].result THEN -10
                   ELSE 0
    IN  IF Len(races) >= 3 THEN step(2) + step(3) ELSE 0

_eval_past_performance(horse) ==
    LET races == horse.recent_races
        recent == Slice(races, 5)
        scores == [i \in 1..Len(recent) |->
                      Max(0, RaceScore(recent[i])) * RaceWeights[i]]
        base == RoundDiv(SumSeq(scores),
                         SumSeq(SubSeq(RaceWeights, 1, Len(recent))))
        consecutive_wins == ConsecutiveWins(races)
        bonus == IF consecutive_wins >= 3 THEN 15000
                 ELSE IF consecutive_wins = 2 THEN 8000
                 ELSE 0
        capped == Min(100000, base + bonus)
    IN  IF races = <<>> THEN 50000
        ELSE RoundDiv(capped * 7 + (50000 + Trend(races) * 1000) * 3, 10)

\* The bonus of one race for a finish in the first three or five.
PlaceBonus(race, top3, top5) ==
    IF FinishOf(race) <= 3 THEN top3
    ELSE IF FinishOf(race) <= 5 THEN top5
    ELSE 0

_eval_course_fit(horse, race_data) ==
    LET races == horse.recent_races
        recent == Slice(races, 5)
        current_dist == race_data.distance
        current_track == race_data.race_info.track
        dist_score ==
            Min(100, 60 + SumSeq([i \in 1..Len(recent) |->
                IF Abs(recent[i].distance - current_dist) <= 200
                THEN PlaceBonus(recent[i], 12, 4) ELSE 0]))
        track_score ==
            Min(100, 60 + SumSeq([i \in 1..Len(recent) |->
                IF recent[i].venue = current_track
                THEN PlaceBonus(recent[i], 15, 5) ELSE 0]))
    IN  IF races = <<>> THEN 60000
        ELSE dist_score * 600 + track_score * 400

_eval_track_condition(horse, race_data) ==
    LET races == horse.recent_races
        recent == Slice(races, 5)
        current_condition == race_data.race_info.track_condition
        same_condition_results ==
            Present([i \in 1..Len(recent) |->
                        IF recent[i].track_condition = current_condition
                        THEN Some(recent[i].result) ELSE None])
        n == Len(same_condition_results)
    IN  IF races = <<>> \/ n = 0 THEN 50000
        ELSE Max(0, Min(100000,
                 110000 - RoundDiv(SumSeq(same_condition_results) * 10000, n)))

\* An interval score that takes a last race less than a week back, or dated
\* after the race, for a short rest.
_eval_intervalShortRestBug(horse, race_data) ==
    LET races == horse.recent_races
        race_date == race_data.race_info.date
        days == Val(race_date) - Val(races[1].date)
    IN  IF race_date = None \/ races = <<>> THEN 0
        ELSE IF races[1].date = None THEN 0
        ELSE IF 14 <= days /\ days <= 42 THEN 15000
        ELSE IF days <= 13 THEN -5000
        ELSE IF 43 <= days /\ days <= 84 THEN 0
        ELSE -10000

\* _eval_interval(horse, race_data): the dates are day numbers, None for a
\* date that is missing or that strptime does not read.
_eval_interval(horse, race_data) ==
    LET races == horse.recent_races
        race_date == race_data.race_info.date
        days == Val(race_date) - Val(races[1].date)
    IN  IF race_date = None \/ races = <<>> THEN 0
        ELSE IF races[1].date = None THEN 0
        ELSE IF 14 <= days /\ days <= 42 THEN 15000
        ELSE IF 7 <= days /\ days <= 13 THEN -5000
        ELSE IF 43 <= days /\ days <= 84 THEN 0
        ELSE -10000

\* The part of the score that rates the change of weight, lines 447-468.
WeightChangePoints(weight_change) ==
    IF -3 <= weight_change /\ weight_change <= 3 THEN 20
    ELSE IF -8 <= weight_change /\ weight_change < -3 THEN 10
    ELSE IF 3 < weight_change /\ weight_change <= 8 THEN 5
    ELSE IF weight_change < -15 THEN -15
    ELSE IF weight_change > 15 THEN -20
    ELSE IF -15 <= weight_change /\ weight_change < -8 THEN -5
    ELSE -10

\* _eval_weight_change(horse) on the day today that datetime.now() gives.
_eval_weight_change(horse, today) ==
    LET weight == horse.weight
        weight_change == horse.weight_change
        races == horse.recent_races
        ideal == IF 450 <= weight /\ weight <= 520 THEN 10
                 ELSE IF weight < 420 \/ weight > 550 THEN -10
                 ELSE 0
        rested == IF races # <<>> /\ races[1].date # None
                     /\ today - Val(races[1].date) > 60
                     /\ 0 <= weight_change /\ weight_change <= 20
                  THEN 5 ELSE 0
        score == 50 + ideal + WeightChangePoints(weight_change) + rested
    IN  IF weight = 0 THEN 50000
        ELSE Max(0, Min(100, score)) * 1000

\* The power of two d = 1000 * 2^k with d <= x < 2 * d, for x >= 1000.
RECURSIVE LogReduce(_, _, _)
LogReduce(x, d, k) ==
    IF x < 2 * d THEN [d |-> d, k |-> k] ELSE LogReduce(x, 2 * d, k + 1)

\* math.log(x / 1000) in hundred-thousandths, for x >= 1000:
\* k * log(2) + 2 * atanh(t) with t = (x - d) / (x + d) <= 1/3 and log(2)
\* 0.69315.
Log(x) ==
    LET r == LogReduce(x, 1000, 0)
        t == RoundDiv((x - r.d) * 100000, x + r.d)
        t2 == RoundDiv(t * t, 100000)
        t3 == RoundDiv(t2 * t, 100000)
        t5 == RoundDiv(t3 * t2, 100000)
        t7 == RoundDiv(t5 * t2, 100000)
        t9 == RoundDiv(t7 * t2, 100000)
    IN  r.k * 69315
          + 2 * (t + RoundDiv(t3, 3) + RoundDiv(t5, 5) + RoundDiv(t7, 7)
                   + RoundDiv(t9, 9))

\* _eval_odds_value without the limit to 0-100.
_eval_odds_valueNoClipBug(horse, past, course) ==
    LET odds == Get(horse, "odds", 10)
        odds_factor == IF odds > 200
                       THEN 20000 + RoundDiv(Log(5 * (odds + 200)) * 5, 100)
                       ELSE odds * 100
    IN  IF odds < 10 THEN 0
        ELSE 40000 + RoundDiv(RoundDiv(past + course, 4) * odds_factor, 5000)

\* _eval_odds_value(horse, past, course); odds / 20 + 1 is
\* 5 * (odds + 200) thousandths for odds in tenths.
_eval_odds_value(horse, past, course) ==
    LET odds == Get(horse, "odds", 10)
        ability2 == past + course
        odds_factor == IF odds > 200
                       THEN 20000 + RoundDiv(Log(5 * (odds + 200)) * 5, 100)
                       ELSE odds * 100
        score == 40000 + RoundDiv(RoundDiv(ability2, 4) * odds_factor, 5000)
        limited == Max(0, Min(100000, score))
    IN  IF odds < 10 THEN 0
        ELSE IF ability2 < 60000 /\ odds > 300 THEN RoundDiv(limited, 2)
        ELSE limited

\* A dict with no key.
EmptyDict == [k \in {} |-> None]

\* FastAnaumaDB.search(name) under @cached(cache=_anauma_cache): the cached
\* answer when there is one, else self.cache.get(name).
search(cache, db, name) ==
    IF name \in DOMAIN cache THEN cache[name]
    ELSE IF name \in DOMAIN db THEN Some(db[name])
    ELSE None

\* The cache after search(name): the answer stays under its key.
Cached(cache, db, name) ==
    [k \in DOMAIN cache \cup {name} |-> search(cache, db, k)]

\* The cache after the searches of the names of horses, in order.
RECURSIVE CachedAll(_, _, _)
CachedAll(cache, db, horses) ==
    IF horses = <<>> THEN cache
    ELSE CachedAll(Cached(cache, db, Head(horses).name), db, Tail(horses))

\* _eval_dark_horse(horse) with db_data the row that search returned.
_eval_dark_horse(horse, db_data) ==
    IF db_data # None /\ Val(db_data).evaluation_score # 0
    THEN Val(db_data).evaluation_score * 1000
    ELSE IF Get(horse, "odds", 10) > 200 THEN 80000
    ELSE IF Get(horse, "odds", 10) > 100 THEN 65000
    ELSE 40000

\* Text containment: sub in s.
Contains(sub, s) ==
    \E i \in 1..(Len(s) - Len(sub) + 1) : SubSeq(s, i, i + Len(sub) - 1) = sub

\* grade_levels of _eval_class_penalty, in the order of the dict.
grade_levels ==
    << [grade |-> <<"G", "I">>, level |-> 5],
       [grade |-> <<"G", "I", "I">>, level |-> 4],
       [grade |-> <<"G", "I", "I", "I">>, level |-> 3],
       [grade |-> <<"O", "P">>, level |-> 2],
       [grade |-> <<"3", SHO>>, level |-> 1],
       [grade |-> <<"2", SHO>>, level |-> 0],
       [grade |-> <<"1", SHO>>, level |-> -1] >>

\* grade_levels.get(grade, 2)
GradeLevel(grade) ==
    IF \E i \in 1..Len(grade_levels) : grade_levels[i].grade = grade
    THEN (CHOOSE e \in {grade_levels[i] : i \in 1..Len(grade_levels)} :
              e.grade = grade).level
    ELSE 2

\* The level of the first grade of the dict that the name or the class of
\* the last race contains; 2 when it contains none.
LastLevel(last_race) ==
    LET hits == {i \in 1..Len(grade_levels) :
                    \/ Contains(grade_levels[i].grade, last_race.race)
                    \/ Contains(grade_levels[i].grade, last_race.class)}
    IN  IF hits = {} THEN 2
        ELSE grade_levels[CHOOSE i \in hits : \A j \in hits : i <= j].level

\* _eval_class_penalty with the same penalty for every step up.
_eval_class_penaltyFlatBug(horse, race_data) ==
    IF horse.recent_races = <<>> THEN 0
    ELSE IF GradeLevel(race_data.race_info.grade)
              <= LastLevel(horse.recent_races[1]) THEN 0
    ELSE -5

\* _eval_class_penalty(horse, race_data), in points.
_eval_class_penalty(horse, race_data) ==
    LET races == horse.recent_races
        level_diff == GradeLevel(race_data.race_info.grade) - LastLevel(races[1])
    IN  IF races = <<>> THEN 0
        ELSE IF level_diff <= 0 THEN 0
        ELSE IF level_diff = 1 THEN -5
        ELSE IF level_diff = 2 THEN -10
        ELSE -15

\* The weight profiles of __init__, in hundredths.
ability_weights ==
    [past_performance |-> 25, course_fit |-> 25, track_condition |-> 10,
     weight_change |-> 3, interval |-> 7, odds_value |-> 18, dark_horse |-> 12,
     apply_class_penalty |-> TRUE]

value_weights ==
    [past_performance |-> 22, course_fit |-> 23, track_condition |-> 8,
     weight_change |-> 2, interval |-> 7, odds_value |-> 23, dark_horse |-> 15,
     apply_class_penalty |-> FALSE]

\* A final score that shrinks as the adjustment grows.
FinalScoreInvertedBug(final, adjustment) ==
    RoundHalfEven(RoundDiv(final, 100) * (20000 - adjustment), 100000)

\* final = (weighted sum + class_penalty) * adjustment, rounded to 2 places:
\* the sum in 1e-5 points, adjustment in ten-thousandths, the result in
\* hundredths of a point.  The product is 10^7 * whole + frac, computed in
\* two halves to stay within 32 bits; round() rounds a tie to even.  (The
\* source multiplies doubles: where the decimal product is an exact tie, the
\* double may lie on either side of it and the source's result may be the
\* other neighbour, 0.01 away.)
FinalScore(final, adjustment) ==
    LET high == (Abs(final) \div 100) * adjustment
        low == (Abs(final) % 100) * adjustment
        rest == (high % 100000) * 100 + low
        whole == high \div 100000 + rest \div 10000000
        frac == rest % 10000000
        rounded == IF 2 * frac > 10000000
                      \/ (2 * frac = 10000000 /\ whole % 2 = 1)
                   THEN whole + 1 ELSE whole
    IN  IF final >= 0 THEN rounded ELSE -rounded

\* The dict _evaluate_horse returns once the sub-scores are known, lines
\* 161-193.  final_score is in hundredths of a point, the other scores in
\* tenths.
ScoreBreakdown(horse, weights, adjustment, past_score, course_score, track_score, weight_change_score, interval_score, odds_score, dark_score, class_penalty) ==
    [name |-> horse.name,
     number |-> horse.number,
     odds |-> Get(horse, "odds", 0),
     weight |-> horse.weight,
     weight_change |-> horse.weight_change,
     final_score |->
        FinalScore(past_score * weights.past_performance
                     + course_score * weights.course_fit
                     + track_score * weights.track_condition
                     + weight_change_score * weights.weight_change
                     + interval_score * weights.interval
                     + odds_score * weights.odds_value
                     + dark_score * weights.dark_horse
                     + class_penalty * 100000,
                   adjustment),
     performance_score |-> RoundHalfEven(past_score, 100),
     course_fit_score |-> RoundHalfEven(course_score, 100),
     track_condition_score |-> RoundHalfEven(track_score, 100),
     weight_change_score |-> RoundHalfEven(weight_change_score, 100),
     interval_score |-> RoundHalfEven(interval_score, 100),
     odds_value_score |-> RoundHalfEven(odds_score, 100),
     dark_horse_score |-> RoundHalfEven(dark_score, 100),
     class_penalty |-> class_penalty * 10]

\* The sub-scores of lines 148-159 that do not need another sub-score,
\* handed on with the odds value, which needs two of them.
WithOddsValue(horse, weights, adjustment, past_score, course_score, track_score, weight_change_score, interval_score, dark_score, class_penalty) ==
    ScoreBreakdown(horse, weights, adjustment, past_score, course_score,
                   track_score, weight_change_score, interval_score,
                   _eval_odds_value(horse, past_score, course_score),
                   dark_score, class_penalty)

\* _evaluate_horse(horse, race_data, weights, adjustment) on the day today,
\* with db_data the row the dark-horse search returned.
_evaluate_horse(horse, race_data, weights, adjustment, today, db_data) ==
    WithOddsValue(horse, weights, adjustment,
                  _eval_past_performance(horse),
                  _eval_course_fit(horse, race_data),
                  _eval_track_condition(horse, race_data),
                  _eval_weight_change(horse, today),
                  _eval_interval(horse, race_data),
                  _eval_dark_horse(horse, db_data),
                  IF weights.apply_class_penalty
                  THEN _eval_class_penalty(horse, race_data) ELSE 0)

\* One step of a stable sort by final_score, largest first: r goes after
\* the last result whose final_score is >= its own.
RECURSIVE InsertByScoreTiesFirstBug(_, _)
InsertByScoreTiesFirstBug(sorted, r) ==
    IF sorted = <<>> THEN <<r>>
    ELSE IF Head(sorted).final_score > r.final_score
    THEN <<Head(sorted)>> \o InsertByScoreTiesFirstBug(Tail(sorted), r)
    ELSE <<r>> \o sorted

RECURSIVE InsertByScore(_, _)
InsertByScore(sorted, r) ==
    IF sorted = <<>> THEN <<r>>
    ELSE IF Head(sorted).final_score >= r.final_score
    THEN <<Head(sorted)>> \o InsertByScore(Tail(sorted), r)
    ELSE <<r>> \o sorted

\* list.sort(key=lambda x: x['final_score'], reverse=True)
RECURSIVE SortedByScore(_)
SortedByScore(scored) ==
    IF scored = <<>> THEN <<>>
    ELSE InsertByScore(SortedByScore(SubSeq(scored, 1, Len(scored) - 1)),
                       scored[Len(scored)])

\* RunningStyleAnalyzer(top_n=2, adjustment_scale=0.10) of evaluate_horses
PaceAnalyzer == [top_n |-> 2, adjustment_scale |-> 10000, bias_threshold |-> 12]

\* adjustments.get(h.get('name'), 1.0)
AppliedAdjustment(adjustments, horse) ==
    IF horse.name \in DOMAIN adjustments THEN adjustments[horse.name]
    ELSE 10000

\* The horses of the field that have past races, in order.
WithRaces(horses) == SelectSeq(horses, LAMBDA h : h.recent_races # <<>>)

\* horses_stats of lines 113-119: the stats of the horses that have past
\* races, each under the horse's name.
HorsesStats(horses) ==
    [i \in 1..Len(WithRaces(horses)) |->
        ("name" :> WithRaces(horses)[i].name)
            @@ calculate_running_style_stats(WithRaces(horses)[i].recent_races)]

\* What a call that an exception leaves returns to its caller.
ValueError == [raised |-> "ValueError"]

\* A scoring that hands back the results of all horses but the last.
ScoreAllButLastBug(cache, db, race_data, today, weights, adjustments) ==
    [i \in 1..(Len(race_data.horses) - 1) |->
        _evaluate_horse(race_data.horses[i], race_data, weights,
                        AppliedAdjustment(adjustments, race_data.horses[i]),
                        today, search(cache, db, race_data.horses[i].name))]

\* Lines 125-136: every horse of the race scored under one weight profile,
\* in the order of the horses (executor.map hands the results back in the
\* order of its input).
ScoreAll(cache, db, race_data, today, weights, adjustments) ==
    [i \in 1..Len(race_data.horses) |->
        _evaluate_horse(race_data.horses[i], race_data, weights,
                        AppliedAdjustment(adjustments, race_data.horses[i]),
                        today, search(cache, db, race_data.horses[i].name))]

\* Lines 125-143, with pace what analyze returned.
RankedResults(cache, db, race_data, today, pace) ==
    [ability_results |->
        SortedByScore(ScoreAll(cache, db, race_data, today, ability_weights,
                               pace.adjustments)),
     value_results |->
        SortedByScore(ScoreAll(cache, db, race_data, today, value_weights,
                               pace.adjustments)),
     pace_analysis |-> [pace |-> pace.pace_label,
                        adjustments |-> pace.adjustments]]

\* Lines 121-143, with horses_stats what lines 113-119 built: the
\* ValueError of calculate_running_style_stats ends the call.
EvaluateWithStats(cache, db, race_data, today, horses_stats) ==
    IF \E i \in 1..Len(horses_stats) : horses_stats[i].raised
    THEN ValueError
    ELSE RankedResults(cache, db, race_data, today,
                       analyze(PaceAnalyzer, horses_stats))

\* evaluate_horses raising on a race with no horse.
evaluate_horsesRaisesOnEmptyBug(cache, db, race_data, today) ==
    IF Get(race_data, "horses", <<>>) = <<>>
    THEN ValueError
    ELSE EvaluateWithStats(cache, db, race_data, today,
                           HorsesStats(race_data.horses))

\* evaluate_horses(race_data) of an evaluator whose dark-horse store is db,
\* with the lookup cache as it is at the call, on the day today: the dict it
\* returns, or the ValueError that leaves it.
evaluate_horses(cache, db, race_data, today) ==
    IF Get(race_data, "horses", <<>>) = <<>>
    THEN [ability_results |-> <<>>, value_results |-> <<>>]
    ELSE EvaluateWithStats(cache, db, race_data, today,
                           HorsesStats(race_data.horses))

\* _anauma_cache after a call of evaluate_horses that returned (or raised)
\* outcome: the searches of the workers leave their answers in it, unless
\* the call ended before the scoring.
CacheAfterEvaluate(cache, db, race_data, outcome) ==
    IF "pace_analysis" \in DOMAIN outcome
    THEN CachedAll(cache, db, race_data.horses)
    ELSE cache

----------------------------------------------------------------------------
(* utils: the validation of horse entries *)

\* validate_horse_data(horse): the three required keys are there, the
\* number is in 1..20 and the odds (in tenths) in 0.1..999.
validate_horse_data(horse) ==
    /\ "number" \in DOMAIN horse
    /\ "name" \in DOMAIN horse
    /\ "odds" \in DOMAIN horse
    /\ 1 <= horse.number /\ horse.number <= 20
    /\ 1 <= horse.odds /\ horse.odds <= 9990

\* clean_horse_data(horses): the entries that validate, in order.
clean_horse_data(horses) == SelectSeq(horses, validate_horse_data)

----------------------------------------------------------------------------
(* utils.CacheManager *)
(*                                                                          *)
(* self._cache is the sequence of its entries in the order the dict holds   *)
(* them (the order the keys were inserted in): records key, value,          *)
(* created_at and last_access.  The times are readings of the clock.        *)

\* CacheManager(max_entries): the state __init__ leaves.
CacheManager(max_entries) ==
    [_cache |-> <<>>, max_entries |-> max_entries,
     hit_count |-> 0, miss_count |-> 0]

\* self._cache.keys()
Keys(cache) == {cache[i].key : i \in 1..Len(cache)}

\* The place of key in the dict.
IndexOf(cache, key) == CHOOSE i \in 1..Len(cache) : cache[i].key = key

\* min(self._cache.keys(), key=lambda k: self._cache[k]['last_access']):
\* the place of the first key, in the order of the dict, whose last_access
\* no other key's is below.
OldestIndex(cache) ==
    CHOOSE i \in 1..Len(cache) :
        /\ \A j \in 1..Len(cache) : cache[i].last_access <= cache[j].last_access
        /\ \A j \in 1..(i - 1) : cache[i].last_access < cache[j].last_access

\* del d[k] for the key at place i.
Without(cache, i) ==
    [j \in 1..(Len(cache) - 1) |-> IF j < i THEN cache[j] ELSE cache[j + 1]]

\* _evict_oldest(): self._cache afterwards.
_evict_oldest(cache) ==
    IF cache = <<>> THEN cache ELSE Without(cache, OldestIndex(cache))

\* d[key] = entry: in place for a key the dict holds, at the end otherwise.
Assigned(cache, entry) ==
    IF entry.key \in Keys(cache)
    THEN [cache EXCEPT ![IndexOf(cache, entry.key)] = entry]
    ELSE Append(cache, entry)

\* A set that does not look at the size of the cache.
setNoEvictionBug(self, key, value, t) ==
    [self EXCEPT
        !._cache = Assigned(self._cache,
                            [key |-> key, value |-> value,
                             created_at |-> t, last_access |-> t])]

\* set(key, value) while the clock shows t: self afterwards.
set(self, key, value, t) ==
    [self EXCEPT
        !._cache =
            Assigned(IF Len(self._cache) >= self.max_entries
                     THEN _evict_oldest(self._cache) ELSE self._cache,
                     [key |-> key, value |-> value,
                      created_at |-> t, last_access |-> t])]

\* get(key) while the clock shows t: self afterwards and the value returned.
get(self, key, t) ==
    IF key \in Keys(self._cache)
    THEN [self |-> [self EXCEPT
                       !.hit_count = @ + 1,
                       !._cache[IndexOf(self._cache, key)].last_access = t],
          returned |-> Some(self._cache[IndexOf(self._cache, key)].value)]
    ELSE [self |-> [self EXCEPT !.miss_count = @ + 1], returned |-> None]

\* clear(): self afterwards.
clear(self) ==
    [self EXCEPT !._cache = <<>>, !.hit_count = 0, !.miss_count = 0]

----------------------------------------------------------------------------
(* betting_strategy.BettingStrategy *)
(*                                                                          *)
(* An evaluated horse is a record with number, name, odds and final_score;  *)
(* a bet is a record: type, horses (the one horse bet on) and amount (yen). *)
(* The returned plan is a record: strategy (the number of bets its label    *)
(* names), purchase_plan, total_bet and horses (honmei, taikou, anaume), or *)
(* a record with the one field error.  The purchase guide, a text made of   *)
(* these, is left out.                                                      *)

\* self.default_budget
default_budget == 400

\* The bet type of every bet of a plan (a win bet).
TANSHO == "tansho"

\* budget * 0.35 computed in binary floating point falls just below the
\* whole number it stands for, for these budgets (up to 3000).
FloatShort(budget) ==
    /\ budget % 20 = 0
    /\ \/ 660 <= budget /\ budget <= 720
       \/ 1300 <= budget /\ budget <= 1460
       \/ 2580 <= budget /\ budget <= 2920

\* int(budget * share) for the share percent / 100 and a budget from 0 to
\* 3000.
IntShare(budget, percent) ==
    IF percent = 35 /\ FloatShort(budget)
    THEN (budget * percent) \div 100 - 1
    ELSE (budget * percent) \div 100

\* {'type': ..., 'horses': [horse], 'amount': amount}
Bet(horse, amount) == [type |-> TANSHO, horses |-> <<horse>>, amount |-> amount]

\* The amounts of the bets of plan, in order.
Amounts(plan) == [i \in 1..Len(plan) |-> plan[i].amount]

\* int(p['amount'] * ratio / 100) * 100, raised to 100, for the bets of
\* plan but the last, with ratio = budget / current_total.
ScaledAmounts(plan, budget, current_total) ==
    [i \in 1..(Len(plan) - 1) |->
        Max(100, ((plan[i].amount * budget) \div (current_total * 100)) * 100)]

\* The bets of plan with the amounts scaled for all but the last, which
\* gets what is left of the budget, raised to 100.
Proportional(plan, budget, scaled) ==
    [i \in 1..Len(plan) |->
        [type |-> plan[i].type,
         horses |-> plan[i].horses,
         amount |-> IF i < Len(plan) THEN scaled[i]
                    ELSE Max(100, budget - SumSeq(scaled))]]

\* _adjust_amounts_to_budget(plan, budget)
_adjust_amounts_to_budget(plan, budget) ==
    IF plan = <<>> THEN plan
    ELSE IF SumSeq(Amounts(plan)) = 0
    THEN [i \in 1..Len(plan) |->
            [plan[i] EXCEPT
                !.amount = budget \div Len(plan)
                             + (IF i - 1 < budget % Len(plan) THEN 1 ELSE 0)]]
    ELSE Proportional(plan, budget,
                      ScaledAmounts(plan, budget, SumSeq(Amounts(plan))))

\* h.copy() with h[key] = h.get('final_score', 0)
WithScore(h, key) ==
    [k \in DOMAIN h \cup {key} |->
        IF k = key THEN Get(h, "final_score", 0) ELSE h[k]]

\* The horses of value_results, in order, with value_score set.
AnaumeCandidatesUnfilteredBug(value_results, honmei_taikou_numbers) ==
    [i \in 1..Len(value_results) |-> WithScore(value_results[i], "value_score")]

\* anaume_candidates: the horses of value_results whose number is not one
\* of honmei_taikou_numbers, in order, with value_score set.
AnaumeCandidates(value_results, honmei_taikou_numbers) ==
    LET others == SelectSeq(value_results,
                            LAMBDA h : h.number \notin honmei_taikou_numbers)
    IN  [i \in 1..Len(others) |-> WithScore(others[i], "value_score")]

\* purchase_plan of lines 111-141 for a budget of 100 or more.
PurchasePlan(budget, honmei_horse, taikou_horses, anaume_horses) ==
    IF budget < 300 THEN << Bet(honmei_horse, budget) >>
    ELSE IF budget < 500
    THEN << Bet(honmei_horse, IntShare(budget, 50)),
            Bet(taikou_horses[1], IntShare(budget, 30)),
            Bet(IF anaume_horses # <<>> THEN anaume_horses[1]
                ELSE taikou_horses[2], IntShare(budget, 20)) >>
    ELSE << Bet(honmei_horse, IntShare(budget, 35)),
            Bet(taikou_horses[1], IntShare(budget, 25)),
            Bet(taikou_horses[2], IntShare(budget, 15)) >>
         \o (IF Len(anaume_horses) >= 2
             THEN << Bet(anaume_horses[1], IntShare(budget, 15)),
                     Bet(anaume_horses[2], IntShare(budget, 10)) >>
             ELSE IF Len(anaume_horses) = 1
             THEN << Bet(anaume_horses[1], IntShare(budget, 25)) >>
             ELSE <<>>)

\* The number of bets the strategy label names.
Strategy(budget, purchase_plan) ==
    IF budget < 300 THEN 1 ELSE IF budget < 500 THEN 3 ELSE Len(purchase_plan)

\* The dict of lines 153-163, with purchase_plan what lines 111-141 chose.
PlanReturned(budget, purchase_plan, honmei_horse, taikou_horses, anaume_horses) ==
    [strategy |-> Strategy(budget, purchase_plan),
     purchase_plan |-> _adjust_amounts_to_budget(purchase_plan, budget),
     total_bet |->
        SumSeq(Amounts(_adjust_amounts_to_budget(purchase_plan, budget))),
     horses |-> [honmei |-> honmei_horse, taikou |-> taikou_horses,
                 anaume |-> anaume_horses]]

\* Lines 108-163 once the horses are chosen.
PlanOf(budget, honmei_horse, taikou_horses, anaume_horses) ==
    IF budget < 100 THEN [error |-> "budget"]
    ELSE PlanReturned(budget,
                      PurchasePlan(budget, honmei_horse, taikou_horses,
                                   anaume_horses),
                      honmei_horse, taikou_horses, anaume_horses)

\* Lines 88-106 and after, once the top three of the ability ranking are
\* copied.
ChosenPlan(budget, value_results, honmei_horse, taikou_horses) ==
    PlanOf(budget, honmei_horse, taikou_horses,
           Slice(AnaumeCandidates(value_results,
                                  {honmei_horse.number,
                                   taikou_horses[1].number,
                                   taikou_horses[2].number}), 2))

\* generate_betting_plan(eval_results) of BettingStrategy(config), with
\* total_budget what the config gives for it (None when it gives nothing).
generate_betting_plan(total_budget, eval_results) ==
    IF Len(Get(eval_results, "ability_results", <<>>)) < 3
    THEN [error |-> "fewer than 3"]
    ELSE ChosenPlan(IF total_budget = None THEN default_budget
                    ELSE Val(total_budget),
                    Get(eval_results, "value_results", <<>>),
                    WithScore(eval_results.ability_results[1], "ability_score"),
                    << WithScore(eval_results.ability_results[2], "ability_score"),
                       WithScore(eval_results.ability_results[3], "ability_score") >>)

----------------------------------------------------------------------------
(* Sample races *)

\* A run from the front: "1:59.3 3-3-4 3F 33.8", third of 13 in a GIII.
FrontRace ==
    [time_margin_pace |->
        <<"1", ":", "5", "9", ".", "3", " ", "3", "-", "3", "-", "4", " ",
          "3", "F", " ", "3", "3", ".", "8">>,
     position_runners_pop |-> <<"3", CHAKU, " ", "1", "3", TOU>>,
     finish |-> Some(3), result |-> 3, runners |-> 13, time_margin |-> 3,
     distance |-> 2000, venue |-> "Tokyo", track_condition |-> "good",
     date |-> Some(272), race |-> <<"G", "I", "I", "I">>, class |-> <<>>]

\* Another run from the front with a slower finish: "1:58.0 2-2-2 3F 34.5".
SteadyRace ==
    [time_margin_pace |->
        <<"1", ":", "5", "8", ".", "0", " ", "2", "-", "2", "-", "2", " ",
          "3", "F", " ", "3", "4", ".", "5">>,
     position_runners_pop |-> <<"3", CHAKU, " ", "1", "3", TOU>>,
     finish |-> Some(3), result |-> 3, runners |-> 13, time_margin |-> 5,
     distance |-> 1600, venue |-> "Kyoto", track_condition |-> "heavy",
     date |-> Some(272), race |-> <<"O", "P">>, class |-> <<>>]

\* A run from behind: "2:03.9 7-8-8 3F 35.5", fourth of 16, with no
\* 'finish' key.
CloserRace ==
    [time_margin_pace |->
        <<"2", ":", "0", "3", ".", "9", " ", "7", "-", "8", "-", "8", " ",
          "3", "F", " ", "3", "5", ".", "5">>,
     position_runners_pop |-> <<"4", CHAKU, " ", "1", "6", TOU>>,
     finish |-> None, result |-> 4, runners |-> 16, time_margin |-> 8,
     distance |-> 2000, venue |-> "Tokyo", track_condition |-> "good",
     date |-> Some(250), race |-> <<>>, class |-> <<"3", SHO>>]

\* A past race whose pace log is cut off after the "3F" mark: "3F .".
BrokenRace ==
    [time_margin_pace |-> <<"3", "F", " ", ".">>,
     position_runners_pop |-> <<>>,
     finish |-> None, result |-> 5, runners |-> 16, time_margin |-> 10,
     distance |-> 1800, venue |-> "Kyoto", track_condition |-> "good",
     date |-> None, race |-> <<>>, class |-> <<>>]

\* The entries of the sample races: a horse with no past race and no
\* weight, three horses with one past race each, a horse whose past race
\* has the cut-off pace log, and an entry that lacks the 'odds' key.
SampleEntries ==
    { [odds |-> 250, weight |-> 0, weight_change |-> 0, recent_races |-> <<>>],
      [odds |-> 80, weight |-> 460, weight_change |-> 0,
       recent_races |-> <<BrokenRace>>],
      [weight |-> 490, weight_change |-> 2, recent_races |-> <<FrontRace>>],
      [odds |-> 35, weight |-> 480, weight_change |-> -2,
       recent_races |-> <<FrontRace>>],
      [odds |-> 120, weight |-> 470, weight_change |-> 12,
       recent_races |-> <<SteadyRace>>],
      [odds |-> 350, weight |-> 500, weight_change |-> 4,
       recent_races |-> <<CloserRace>>] }

\* The names of the horses of the sample races; two horses may have one name.
SampleNames == {"A", "B"}

\* race_info of the sample races: a GI at Tokyo on day 300.
SampleRaceInfo ==
    [date |-> Some(300), track |-> "Tokyo", track_condition |-> "good",
     grade |-> <<"G", "I">>]

\* The race of the entries e[1], e[2], ... under the names n[1], n[2], ...;
\* a horse's number is its place in the list.
RaceOf(e, n) ==
    [race_info |-> SampleRaceInfo,
     distance |-> 2000,
     horses |-> [i \in DOMAIN e |-> [name |-> n[i], number |-> i] @@ e[i]]]

\* A race_data that has no 'horses' key.
RaceWithoutHorses == [race_info |-> SampleRaceInfo, distance |-> 2000]

\* current_race is one of the races of up to MaxRunners horses, or the race
\* with no list of horses.
IsSampleRace ==
    \/ \E k \in 0..MaxRunners :
            \E e \in [1..k -> SampleEntries] :
                \E n \in [1..k -> SampleNames] : current_race = RaceOf(e, n)
    \/ current_race = RaceWithoutHorses

\* The dark-horse store FastAnaumaDB loaded: one row, of the horse "A".
SampleStore == [k \in {"A"} |-> [evaluation_score |-> 90]]


\* The day before the race.
StartDay == Val(SampleRaceInfo.date) - 1

\* A win: "1:33.0 1-1-1 3F 34.0", first of 16 in a 2-win class race, ten
\* days before the sample race.
WinRace ==
    [time_margin_pace |->
        <<"1", ":", "3", "3", ".", "0", " ", "1", "-", "1", "-", "1", " ",
          "3", "F", " ", "3", "4", ".", "0">>,
     position_runners_pop |-> <<"1", CHAKU, " ", "1", "6", TOU>>,
     finish |-> Some(1), result |-> 1, runners |-> 16, time_margin |-> 2,
     distance |-> 1600, venue |-> "Tokyo", track_condition |-> "good",
     date |-> Some(290), race |-> <<>>, class |-> <<"2", SHO>>]

\* A run far back, a hundred days before the sample race:
\* "2:27.5 9-9-9 3F 36.2", ninth of 12.
LateRace ==
    [time_margin_pace |->
        <<"2", ":", "2", "7", ".", "5", " ", "9", "-", "9", "-", "9", " ",
          "3", "F", " ", "3", "6", ".", "2">>,
     position_runners_pop |-> <<"9", CHAKU, " ", "1", "2", TOU>>,
     finish |-> Some(9), result |-> 9, runners |-> 12, time_margin |-> 21,
     distance |-> 2400, venue |-> "Kyoto", track_condition |-> "heavy",
     date |-> Some(200), race |-> <<>>, class |-> <<>>]

\* The past races the history of the horse of a one-horse race is made of.
HistoryRaces == {FrontRace, SteadyRace, CloserRace, WinRace, LateRace}

\* The odds and weights of the horse of a one-horse race.
ScoreEntries ==
    { [odds |-> 35, weight |-> 480, weight_change |-> -2],
      [odds |-> 120, weight |-> 470, weight_change |-> 12],
      [odds |-> 250, weight |-> 0, weight_change |-> 0] }

\* The grades of the one-horse races.
ScoreGrades == {<<"G", "I">>, <<"G", "I", "I", "I">>}

\* The race of the one horse e under the name n, with the history races,
\* of the grade grade.
OneHorseRace(e, n, races, grade) ==
    [race_info |-> [SampleRaceInfo EXCEPT !.grade = grade],
     distance |-> 2000,
     horses |-> << [name |-> n, number |-> 1, odds |-> e.odds,
                    weight |-> e.weight, weight_change |-> e.weight_change,
                    recent_races |-> races] >>]

\* current_race is a race of one horse with up to MaxHistory past races.
IsOneHorseRace ==
    \E k \in 0..MaxHistory :
        \E races \in [1..k -> HistoryRaces] :
            \E e \in ScoreEntries, n \in SampleNames, grade \in ScoreGrades :
                current_race = OneHorseRace(e, n, races, grade)

\* The stores FastAnaumaDB may have loaded: the row of "A", a row of "A"
\* whose evaluation_score is 0, and no row (the file could not be opened,
\* and the except clause left self.cache empty).
SampleStores ==
    { SampleStore,
      [k \in {"A"} |-> [evaluation_score |-> 0]],
      EmptyDict }


----------------------------------------------------------------------------
(* The worker pool of evaluate_horses, lines 125-137 *)
(*                                                                          *)
(* pool is a record: phase ("idle", or the pass under way: "ability" or     *)
(* "value"), pace_analysis (what analyze returned), status (of each task:   *)
(* "queued", "running", "missed" once the cached search found no entry and  *)
(* is about to store one, "done"), rows (what each search returned), scored *)
(* (what each task returned), order (the tasks of the pass in the order     *)
(* they ended), orders (the orders of the passes that ended) and            *)
(* ability_results (the ranking of the first pass).                         *)

\* No call of evaluate_horses is under way.
IdlePool ==
    [phase |-> "idle",
     pace_analysis |-> [pace |-> AVERAGE, adjustments |-> EmptyDict],
     status |-> <<>>, rows |-> <<>>, scored |-> <<>>, order |-> <<>>,
     orders |-> <<>>, ability_results |-> <<>>]

\* executor.map(lambda h: ..., horses): a task per horse is queued.
Submitted(phase, pace_analysis, n, ability_results, orders) ==
    [phase |-> phase,
     pace_analysis |-> pace_analysis,
     status |-> [i \in 1..n |-> "queued"],
     rows |-> [i \in 1..n |-> None],
     scored |-> [i \in 1..n |-> None],
     order |-> <<>>,
     orders |-> orders,
     ability_results |-> ability_results]

\* The weight profile of the pass under way.
PassWeights(phase) ==
    IF phase = "ability" THEN ability_weights ELSE value_weights

\* The pool once task i got db_data from the search and returned its score
\* breakdown.
Finished(i, db_data) ==
    [pool EXCEPT
        !.status[i] = "done",
        !.rows[i] = db_data,
        !.scored[i] =
            Some(_evaluate_horse(
                     current_race.horses[i], current_race,
                     PassWeights(pool.phase),
                     AppliedAdjustment(pool.pace_analysis.adjustments,
                                       current_race.horses[i]),
                     now, db_data)),
        !.order = Append(@, i)]

\* list(executor.map(...)) handing the results back in the order tasks
\* ended in.
GatheredAsCompletedBug(scored, order) ==
    [j \in 1..Len(order) |-> Val(scored[order[j]])]

\* list(executor.map(...)): the results of the tasks in the order of the
\* input, whatever the order they ended in.
Gathered(scored, order) ==
    [i \in 1..Len(scored) |-> Val(scored[i])]

\* The pool and the results once the pass under way has been gathered and
\* sorted into ranked: the value pass starts after the ability pass, the
\* call returns after the value pass.
PassEnded(ranked) ==
    IF pool.phase = "ability"
    THEN /\ pool' = Submitted("value", pool.pace_analysis, Len(pool.status),
                              ranked, Append(pool.orders, pool.order))
         /\ UNCHANGED results
    ELSE /\ pool' = [IdlePool EXCEPT
                        !.orders = Append(pool.orders, pool.order)]
         /\ results' = Append(results,
                              [ability_results |-> pool.ability_results,
                               value_results |-> ranked,
                               pace_analysis |-> pool.pace_analysis])

\* Lines 113-123 done: the first pass is submitted with what analyze
\* returned.
PoolOpened(pace) ==
    pool' = Submitted("ability",
                      [pace |-> pace.pace_label,
                       adjustments |-> pace.adjustments],
                      Len(current_race.horses), <<>>, <<>>)

\* The call ends before the pool: there is no horse, or
\* calculate_running_style_stats raised.
EndsBeforePool ==
    \/ Get(current_race, "horses", <<>>) = <<>>
    \/ \E i \in 1..Len(current_race.horses) :
           /\ current_race.horses[i].recent_races # <<>>
           /\ calculate_running_style_stats(
                  current_race.horses[i].recent_races).raised

----------------------------------------------------------------------------
(* Scenarios *)

NoToken == <<"-">>

NoParsed == [raised |-> FALSE, avg_pos |-> None, last_3f |-> None]

NoStyleArgs == [front_count |-> 0, close_count |-> 0, avg_pos |-> None, avg_up |-> None]

\* RunningStyleAnalyzer() with the defaults of __init__
DefaultAnalyzer == [top_n |-> 3, adjustment_scale |-> 8000, bias_threshold |-> 12]

NoAnalysis == analyze(DefaultAnalyzer, <<>>)

IdleParser == time_margin_pace = NoToken /\ parsed = NoParsed

IdleStyle == style_args = NoStyleArgs /\ style = UNKNOWN

IdleAnalyzer == analyzer = DefaultAnalyzer /\ field = <<>> /\ analysis = NoAnalysis

IdleEvaluator ==
    /\ current_race = RaceOf(<<>>, <<>>)
    /\ anauma_db = EmptyDict
    /\ _anauma_cache = EmptyDict
    /\ now = StartDay
    /\ results = <<>>
    /\ pool = IdlePool

NoStats == calculate_running_style_stats(<<>>)

IdleStats == history = <<>> /\ style_stats = NoStats

IdleProcess == evaluators = <<>> /\ calls = <<>>

\* CacheManager() with the default of __init__
IdleCacheManager == cache_manager = CacheManager(100)

NoPlan == EmptyDict

IdleBetting ==
    /\ config_budget = None
    /\ evaluation = EmptyDict
    /\ betting_plan = NoPlan

\* --- parse_pace_data on one token
InitParse ==
    /\ pc = "parse"
    /\ IsSampleToken(time_margin_pace)
    /\ parsed = NoParsed
    /\ IdleStyle
    /\ IdleAnalyzer
    /\ IdleEvaluator
    /\ IdleStats
    /\ IdleProcess
    /\ IdleCacheManager
    /\ IdleBetting

ParsePaceData ==
    /\ pc = "parse"
    /\ parsed' = parse_pace_data(time_margin_pace)
    /\ pc' = "parsed"
    /\ UNCHANGED <<time_margin_pace, style_args, style, analyzer, field, analysis>>
    /\ UNCHANGED <<history, style_stats, evaluators, calls, cache_manager,
                   config_budget, evaluation, betting_plan>>
    /\ UNCHANGED <<current_race, anauma_db, _anauma_cache, now, results, pool>>

NextParse == ParsePaceData

SpecParse == InitParse /\ [][NextParse]_vars

\* --- determine_running_style on one horse's figures
InitStyle ==
    /\ pc = "style"
    /\ style_args \in [front_count : 0..MaxCount, close_count : 0..MaxCount,
                       avg_pos : AvgPosValues, avg_up : AvgUpValues]
    /\ style = UNKNOWN
    /\ IdleParser
    /\ IdleAnalyzer
    /\ IdleEvaluator
    /\ IdleStats
    /\ IdleProcess
    /\ IdleCacheManager
    /\ IdleBetting

DetermineRunningStyle ==
    /\ pc = "style"
    /\ style' = determine_running_style(style_args.front_count,
                                        style_args.close_count,
                                        style_args.avg_pos, style_args.avg_up)
    /\ pc' = "styled"
    /\ UNCHANGED <<time_margin_pace, parsed, style_args, analyzer, field, analysis>>
    /\ UNCHANGED <<history, style_stats, evaluators, calls, cache_manager,
                   config_budget, evaluation, betting_plan>>
    /\ UNCHANGED <<current_race, anauma_db, _anauma_cache, now, results, pool>>

NextStyle == DetermineRunningStyle

SpecStyle == InitStyle /\ [][NextStyle]_vars

\* --- RunningStyleAnalyzer.analyze on one field
\* The averages a horse of the sample fields has: none, or an average finish
\* of 4.2 with an average last 3F of 33.8 s.
AverageSamples ==
    { [avg_pos |-> None, avg_up |-> None],
      [avg_pos |-> Some(420), avg_up |-> Some(3380)] }

\* What a horse of the sample fields brings: counts up to MaxTally and one
\* of the samples of averages.
Profiles ==
    { [front_count |-> f, close_count |-> c, avg_pos |-> a.avg_pos,
       avg_up |-> a.avg_up] :
        f \in 0..MaxTally, c \in 0..MaxTally, a \in AverageSamples }

\* The field of the horses of profiles p[1], p[2], ...; a horse's name is
\* its number.
FieldOf(p) ==
    [i \in DOMAIN p |->
        [name |-> i, front_count |-> p[i].front_count,
         close_count |-> p[i].close_count, avg_pos |-> p[i].avg_pos,
         avg_up |-> p[i].avg_up]]

\* field is one of the fields of up to MaxHorses horses.
IsSampleField ==
    \E n \in 0..MaxHorses : \E p \in [1..n -> Profiles] : field = FieldOf(p)

\* The analyzers the repository builds (the defaults; top_n=2 with
\* adjustment_scale=0.10 in evaluate_horses) and one whose scale is above
\* the 0.10 cap.
Analyzers ==
    { DefaultAnalyzer,
      [top_n |-> 2, adjustment_scale |-> 10000, bias_threshold |-> 12],
      [top_n |-> 1, adjustment_scale |-> 20000, bias_threshold |-> 5] }

\* Analyzers with any adjustment_scale: the default, one above the cap, a
\* negative one, 0.0001, and 0.00006, which is not a multiple of 0.0001.
AnyAnalyzers ==
    { DefaultAnalyzer,
      [top_n |-> 1, adjustment_scale |-> 20000, bias_threshold |-> 5],
      [top_n |-> 3, adjustment_scale |-> -8000, bias_threshold |-> 12],
      [top_n |-> 3, adjustment_scale |-> 10, bias_threshold |-> 12],
      [top_n |-> 3, adjustment_scale |-> 6, bias_threshold |-> 12] }

InitAnalyze ==
    /\ pc = "analyze"
    /\ analyzer \in Analyzers
    /\ IsSampleField
    /\ analysis = NoAnalysis
    /\ IdleParser
    /\ IdleStyle
    /\ IdleEvaluator
    /\ IdleStats
    /\ IdleProcess
    /\ IdleCacheManager
    /\ IdleBetting

InitAnalyzeAny ==
    /\ pc = "analyze"
    /\ analyzer \in AnyAnalyzers
    /\ IsSampleField
    /\ analysis = NoAnalysis
    /\ IdleParser
    /\ IdleStyle
    /\ IdleEvaluator
    /\ IdleStats
    /\ IdleProcess
    /\ IdleCacheManager
    /\ IdleBetting

Analyze ==
    /\ pc = "analyze"
    /\ analysis' = analyze(analyzer, field)
    /\ pc' = "analyzed"
    /\ UNCHANGED <<time_margin_pace, parsed, style_args, style, analyzer, field>>
    /\ UNCHANGED <<history, style_stats, evaluators, calls, cache_manager,
                   config_budget, evaluation, betting_plan>>
    /\ UNCHANGED <<current_race, anauma_db, _anauma_cache, now, results, pool>>

NextAnalyze == Analyze

SpecAnalyze == InitAnalyze /\ [][NextAnalyze]_vars

SpecAnalyzeAny == InitAnalyzeAny /\ [][NextAnalyze]_vars

\* --- HorseEvaluator.evaluate_horses on one race, called up to MaxCalls
\* times while the clock moves on
InitEvaluate ==
    /\ pc = "evaluate"
    /\ IsSampleRace
    /\ anauma_db = SampleStore
    /\ _anauma_cache = EmptyDict
    /\ now = StartDay
    /\ results = <<>>
    /\ pool = IdlePool
    /\ IdleParser
    /\ IdleStyle
    /\ IdleAnalyzer
    /\ IdleStats
    /\ IdleProcess
    /\ IdleCacheManager
    /\ IdleBetting

\* The call returned (or raised) outcome: the caller has it, and the cache
\* holds what the call left in it.
Returned(outcome) ==
    /\ results' = Append(results, outcome)
    /\ _anauma_cache' = CacheAfterEvaluate(_anauma_cache, anauma_db,
                                           current_race, outcome)

\* One call of evaluate_horses(current_race).
Evaluate ==
    /\ pc = "evaluate"
    /\ Len(results) < MaxCalls
    /\ Returned(evaluate_horses(_anauma_cache, anauma_db, current_race, now))
    /\ UNCHANGED <<pc, current_race, anauma_db, now, pool>>
    /\ UNCHANGED <<time_margin_pace, parsed, style_args, style, analyzer, field,
                   analysis>>
    /\ UNCHANGED <<history, style_stats, evaluators, calls, cache_manager,
                   config_budget, evaluation, betting_plan>>

\* The wall clock moves on by ClockStep days.
Tick ==
    /\ pc = "evaluate"
    /\ now + ClockStep <= StartDay + MaxTicks * ClockStep
    /\ now' = now + ClockStep
    /\ UNCHANGED <<pc, current_race, anauma_db, _anauma_cache, results, pool>>
    /\ UNCHANGED <<time_margin_pace, parsed, style_args, style, analyzer, field,
                   analysis>>
    /\ UNCHANGED <<history, style_stats, evaluators, calls, cache_manager,
                   config_budget, evaluation, betting_plan>>

NextEvaluate == Evaluate \/ Tick

SpecEvaluate == InitEvaluate /\ [][NextEvaluate]_vars

\* --- HorseEvaluator.evaluate_horses on a race of one horse, over the
\* histories, grades and stores
InitScore ==
    /\ pc = "evaluate"
    /\ IsOneHorseRace
    /\ anauma_db \in SampleStores
    /\ _anauma_cache = EmptyDict
    /\ now = StartDay
    /\ results = <<>>
    /\ pool = IdlePool
    /\ IdleParser
    /\ IdleStyle
    /\ IdleAnalyzer
    /\ IdleStats
    /\ IdleProcess
    /\ IdleCacheManager
    /\ IdleBetting

SpecScore == InitScore /\ [][NextEvaluate]_vars

\* --- HorseEvaluator.evaluate_horses step by step: the tasks of the two
\* passes run on PoolSize worker threads and interleave

\* The entries of the races of the pool scenario.
PoolEntries ==
    { [odds |-> 250, weight |-> 0, weight_change |-> 0, recent_races |-> <<>>],
      [odds |-> 35, weight |-> 480, weight_change |-> -2,
       recent_races |-> <<FrontRace>>],
      [odds |-> 350, weight |-> 500, weight_change |-> 4,
       recent_races |-> <<CloserRace>>] }

\* A race with one horse, whose past race has the cut-off pace log.
BrokenLogRace ==
    RaceOf(<<[odds |-> 80, weight |-> 460, weight_change |-> 0,
              recent_races |-> <<BrokenRace>>]>>, <<"A">>)

InitPool ==
    /\ pc = "evaluate"
    /\ \/ \E k \in 0..MaxRunners :
              \E e \in [1..k -> PoolEntries] :
                  \E n \in [1..k -> SampleNames] : current_race = RaceOf(e, n)
       \/ current_race = BrokenLogRace
    /\ anauma_db = SampleStore
    /\ _anauma_cache = EmptyDict
    /\ now = StartDay
    /\ results = <<>>
    /\ pool = IdlePool
    /\ IdleParser
    /\ IdleStyle
    /\ IdleAnalyzer
    /\ IdleStats
    /\ IdleProcess
    /\ IdleCacheManager
    /\ IdleBetting

\* evaluate_horses is called and gets as far as the first pool.
Submit ==
    /\ pc = "evaluate"
    /\ pool.phase = "idle"
    /\ Len(results) < MaxCalls
    /\ ~EndsBeforePool
    /\ PoolOpened(analyze(PaceAnalyzer, HorsesStats(current_race.horses)))
    /\ UNCHANGED <<pc, current_race, anauma_db, _anauma_cache, now, results>>
    /\ UNCHANGED <<time_margin_pace, parsed, style_args, style, analyzer, field,
                   analysis>>
    /\ UNCHANGED <<history, style_stats, evaluators, calls, cache_manager,
                   config_budget, evaluation, betting_plan>>

\* evaluate_horses is called and ends before the first pool.
ReturnEarly ==
    /\ pc = "evaluate"
    /\ pool.phase = "idle"
    /\ Len(results) < MaxCalls
    /\ EndsBeforePool
    /\ results' = Append(results, evaluate_horses(_anauma_cache, anauma_db,
                                                  current_race, now))
    /\ UNCHANGED <<pc, current_race, anauma_db, _anauma_cache, now, pool>>
    /\ UNCHANGED <<time_margin_pace, parsed, style_args, style, analyzer, field,
                   analysis>>
    /\ UNCHANGED <<history, style_stats, evaluators, calls, cache_manager,
                   config_budget, evaluation, betting_plan>>

\* A free worker thread takes the task at the head of the queue.
Start(i) ==
    /\ pc = "evaluate"
    /\ i \in DOMAIN pool.status
    /\ pool.status[i] = "queued"
    /\ \A j \in 1..(i - 1) : pool.status[j] # "queued"
    /\ Cardinality({j \in DOMAIN pool.status :
                       pool.status[j] \in {"running", "missed"}}) < PoolSize
    /\ pool' = [pool EXCEPT !.status[i] = "running"]
    /\ UNCHANGED <<pc, current_race, anauma_db, _anauma_cache, now, results>>
    /\ UNCHANGED <<time_margin_pace, parsed, style_args, style, analyzer, field,
                   analysis>>
    /\ UNCHANGED <<history, style_stats, evaluators, calls, cache_manager,
                   config_budget, evaluation, betting_plan>>

\* Task i reaches anauma_db.search(name): the cached wrapper looks the
\* name up in _anauma_cache.  With an entry the task goes on to its end;
\* without one it calls the function, and has its answer to store.
Lookup(i) ==
    /\ pc = "evaluate"
    /\ i \in DOMAIN pool.status
    /\ pool.status[i] = "running"
    /\ IF current_race.horses[i].name \in DOMAIN _anauma_cache
       THEN pool' = Finished(i, _anauma_cache[current_race.horses[i].name])
       ELSE pool' = [pool EXCEPT
                        !.status[i] = "missed",
                        !.rows[i] = search(EmptyDict, anauma_db,
                                           current_race.horses[i].name)]
    /\ UNCHANGED <<pc, current_race, anauma_db, _anauma_cache, now, results>>
    /\ UNCHANGED <<time_margin_pace, parsed, style_args, style, analyzer, field,
                   analysis>>
    /\ UNCHANGED <<history, style_stats, evaluators, calls, cache_manager,
                   config_budget, evaluation, betting_plan>>

\* Task i stores the answer of the search in _anauma_cache and goes on to
\* its end.
Store(i) ==
    /\ pc = "evaluate"
    /\ i \in DOMAIN pool.status
    /\ pool.status[i] = "missed"
    /\ _anauma_cache' =
           [k \in DOMAIN _anauma_cache \cup {current_race.horses[i].name} |->
               IF k = current_race.horses[i].name THEN pool.rows[i]
               ELSE _anauma_cache[k]]
    /\ pool' = Finished(i, pool.rows[i])
    /\ UNCHANGED <<pc, current_race, anauma_db, now, results>>
    /\ UNCHANGED <<time_margin_pace, parsed, style_args, style, analyzer, field,
                   analysis>>
    /\ UNCHANGED <<history, style_stats, evaluators, calls, cache_manager,
                   config_budget, evaluation, betting_plan>>

\* Every task of the pass has ended: the results are gathered and sorted.
Gather ==
    /\ pc = "evaluate"
    /\ pool.phase # "idle"
    /\ \A i \in DOMAIN pool.status : pool.status[i] = "done"
    /\ PassEnded(SortedByScore(Gathered(pool.scored, pool.order)))
    /\ UNCHANGED <<pc, current_race, anauma_db, _anauma_cache, now>>
    /\ UNCHANGED <<time_margin_pace, parsed, style_args, style, analyzer, field,
                   analysis>>
    /\ UNCHANGED <<history, style_stats, evaluators, calls, cache_manager,
                   config_budget, evaluation, betting_plan>>

NextPool ==
    \/ Submit
    \/ ReturnEarly
    \/ \E i \in 1..MaxRunners : Start(i) \/ Lookup(i) \/ Store(i)
    \/ Gather

SpecPool == InitPool /\ [][NextPool]_vars

\* --- HorseEvaluator.evaluate_horses on a race of one horse, over the days
\* from its last race to the race

\* The longest time from the last race to the race, in days.
MaxGap == 90

\* The most days the date of the last race lies after the date of the race.
MaxLead == 3

\* The dates the last race may carry: none that can be read, or a day from
\* MaxGap days before the race to MaxLead days after it.
LastDates ==
    {None} \cup {Some(d) : d \in (Val(SampleRaceInfo.date) - MaxGap)
                                   ..(Val(SampleRaceInfo.date) + MaxLead)}

\* The race of one horse with the history races, on the date race_date.
IntervalRace(races, race_date) ==
    [race_info |-> [SampleRaceInfo EXCEPT !.date = race_date],
     distance |-> 2000,
     horses |-> << [name |-> "B", number |-> 1, odds |-> 35, weight |-> 480,
                    weight_change |-> -2, recent_races |-> races] >>]

\* current_race is a race, dated or not, of one horse that has no past race,
\* or one or two of which the last is dated in LastDates.
IsIntervalRace ==
    \E race_date \in {None, SampleRaceInfo.date} :
        \/ current_race = IntervalRace(<<>>, race_date)
        \/ \E last_date \in LastDates :
               \/ current_race =
                      IntervalRace(<< [FrontRace EXCEPT !.date = last_date] >>,
                                   race_date)
               \/ current_race =
                      IntervalRace(<< [FrontRace EXCEPT !.date = last_date],
                                      LateRace >>, race_date)

InitInterval ==
    /\ pc = "evaluate"
    /\ IsIntervalRace
    /\ anauma_db = SampleStore
    /\ _anauma_cache = EmptyDict
    /\ now = StartDay
    /\ results = <<>>
    /\ pool = IdlePool
    /\ IdleParser
    /\ IdleStyle
    /\ IdleAnalyzer
    /\ IdleStats
    /\ IdleProcess
    /\ IdleCacheManager
    /\ IdleBetting

SpecInterval == InitInterval /\ [][NextEvaluate]_vars

\* --- calculate_running_style_stats on one history

\* The longest history passed in.
MaxRaces == 6

\* A past race whose pace log has no corner positions: "1:59.3 3F 33.8",
\* fifth of 14.
BareRace ==
    [time_margin_pace |->
        <<"1", ":", "5", "9", ".", "3", " ", "3", "F", " ", "3", "3", ".", "8">>,
     position_runners_pop |-> <<"5", CHAKU, " ", "1", "4", TOU>>,
     finish |-> Some(5), result |-> 5, runners |-> 14, time_margin |-> 6,
     distance |-> 2000, venue |-> "Tokyo", track_condition |-> "good",
     date |-> Some(279), race |-> <<>>, class |-> <<>>]

\* The past races the histories passed in are made of.
StatsRaces == {FrontRace, CloserRace, BareRace}

InitStats ==
    /\ pc = "stats"
    /\ \E k \in 0..MaxRaces : history \in [1..k -> StatsRaces]
    /\ style_stats = NoStats
    /\ IdleParser
    /\ IdleStyle
    /\ IdleAnalyzer
    /\ IdleEvaluator
    /\ IdleProcess
    /\ IdleCacheManager
    /\ IdleBetting

\* One call of calculate_running_style_stats(history).
CalculateRunningStyleStats ==
    /\ pc = "stats"
    /\ pc' = "counted"
    /\ style_stats' = calculate_running_style_stats(history)
    /\ UNCHANGED <<time_margin_pace, parsed, style_args, style, analyzer, field,
                   analysis>>
    /\ UNCHANGED <<current_race, anauma_db, _anauma_cache, now, results, pool>>
    /\ UNCHANGED <<history, evaluators, calls, cache_manager, config_budget,
                   evaluation, betting_plan>>

NextStats == CalculateRunningStyleStats

SpecStats == InitStats /\ [][NextStats]_vars

\* --- HorseEvaluator objects built and used one after the other in one
\* process

\* The most HorseEvaluator objects built.
MaxEvaluators == 2

\* The stores the FastAnaumaDB of an evaluator may have loaded.
SeasonStores == {SampleStore, EmptyDict}

\* The entries of the races of the season: a horse with one run from the
\* front, one whose one past race has no corner positions, and one with a
\* run from behind.
SeasonEntries ==
    << [odds |-> 35, weight |-> 480, weight_change |-> -2,
        recent_races |-> <<FrontRace>>],
       [odds |-> 120, weight |-> 470, weight_change |-> 12,
        recent_races |-> <<BareRace>>],
       [odds |-> 350, weight |-> 500, weight_change |-> 4,
        recent_races |-> <<CloserRace>>] >>

\* The races of the season: two horses, "A" and "B", each.
SeasonRaces ==
    { RaceOf(<<SeasonEntries[i], SeasonEntries[i + 1]>>, <<"A", "B">>) :
        i \in 1..2 }

\* The entries of _anauma_cache whose key holds the FastAnaumaDB of the
\* evaluator self, by name: the key of an entry is (self, name), the
\* arguments of search.
EntriesOfAnyInstanceBug(cache, self) ==
    [name \in {q[2] : q \in DOMAIN cache} |->
        cache[CHOOSE q \in DOMAIN cache : q[2] = name]]

EntriesOf(cache, self) ==
    [name \in {q[2] : q \in {p \in DOMAIN cache : p[1] = self}} |->
        cache[<<self, name>>]]

\* _anauma_cache once the entries of the evaluator self are entries.
WithEntries(cache, self, entries) ==
    [q \in DOMAIN cache \cup {<<self, name>> : name \in DOMAIN entries} |->
        IF q[1] = self /\ q[2] \in DOMAIN entries THEN entries[q[2]]
        ELSE cache[q]]

\* _anauma_cache after the evaluator self returned outcome for race_data.
CacheAfterCall(cache, self, db, race_data, outcome) ==
    WithEntries(cache, self,
                CacheAfterEvaluate(EntriesOf(cache, self), db, race_data,
                                   outcome))

InitSeason ==
    /\ pc = "evaluate"
    /\ evaluators = <<>>
    /\ calls = <<>>
    /\ IdleEvaluator
    /\ IdleParser
    /\ IdleStyle
    /\ IdleAnalyzer
    /\ IdleStats
    /\ IdleCacheManager
    /\ IdleBetting

\* HorseEvaluator(config): its FastAnaumaDB loads a store.
Construct ==
    /\ pc = "evaluate"
    /\ Len(evaluators) < MaxEvaluators
    /\ \E store \in SeasonStores : evaluators' = Append(evaluators, store)
    /\ UNCHANGED <<time_margin_pace, parsed, style_args, style, analyzer, field,
                   analysis>>
    /\ UNCHANGED <<pc, current_race, anauma_db, _anauma_cache, now, results,
                   pool>>
    /\ UNCHANGED <<history, style_stats, calls, cache_manager, config_budget,
                   evaluation, betting_plan>>

\* The caller has outcome from the evaluator self, and the cache holds what
\* the call left in it.
ReturnedBy(self, race_data, outcome) ==
    /\ results' = Append(results, outcome)
    /\ calls' = Append(calls, [self |-> self, race_data |-> race_data,
                               today |-> now])
    /\ _anauma_cache' = CacheAfterCall(_anauma_cache, self, evaluators[self],
                                       race_data, outcome)

\* One call of evaluate_horses(race_data) on the evaluator self.
EvaluateOn(self) ==
    /\ pc = "evaluate"
    /\ Len(calls) < MaxCalls
    /\ \E race_data \in SeasonRaces :
           /\ current_race' = race_data
           /\ ReturnedBy(self, race_data,
                         evaluate_horses(EntriesOf(_anauma_cache, self),
                                         evaluators[self], race_data, now))
    /\ UNCHANGED <<time_margin_pace, parsed, style_args, style, analyzer, field,
                   analysis>>
    /\ UNCHANGED <<pc, anauma_db, now, pool>>
    /\ UNCHANGED <<history, style_stats, evaluators, cache_manager,
                   config_budget, evaluation, betting_plan>>

NextSeason ==
    \/ Construct
    \/ \E self \in 1..Len(evaluators) : EvaluateOn(self)
    \/ Tick

SpecSeason == InitSeason /\ [][NextSeason]_vars

\* --- CacheManager: set, get and clear in any order while the clock moves on

\* The largest max_entries of the cache.
MaxEntries == 2

\* The most calls of get counted since the last clear.
MaxGets == 2

\* The most ticks of the clock.
MaxElapsed == 2

\* The keys and the values the callers use.
CacheKeys == {"a", "b", "c"}

CacheValues == {"x", "y"}

InitCache ==
    /\ pc = "cache"
    /\ \E max_entries \in 0..MaxEntries :
           cache_manager = CacheManager(max_entries)
    /\ IdleParser
    /\ IdleStyle
    /\ IdleAnalyzer
    /\ IdleEvaluator
    /\ IdleStats
    /\ IdleProcess
    /\ IdleBetting

\* One call of cache_manager.set(key, value).
Set ==
    /\ pc = "cache"
    /\ \E key \in CacheKeys, value \in CacheValues :
           cache_manager' = set(cache_manager, key, value, now)
    /\ UNCHANGED <<time_margin_pace, parsed, style_args, style, analyzer, field,
                   analysis>>
    /\ UNCHANGED <<pc, current_race, anauma_db, _anauma_cache, now, results,
                   pool>>
    /\ UNCHANGED <<history, style_stats, evaluators, calls, config_budget,
                   evaluation, betting_plan>>

\* One call of cache_manager.get(key); the caller drops the value.
GetKey ==
    /\ pc = "cache"
    /\ cache_manager.hit_count + cache_manager.miss_count < MaxGets
    /\ \E key \in CacheKeys :
           cache_manager' = get(cache_manager, key, now).self
    /\ UNCHANGED <<time_margin_pace, parsed, style_args, style, analyzer, field,
                   analysis>>
    /\ UNCHANGED <<pc, current_race, anauma_db, _anauma_cache, now, results,
                   pool>>
    /\ UNCHANGED <<history, style_stats, evaluators, calls, config_budget,
                   evaluation, betting_plan>>

\* One call of cache_manager.clear().
Clear ==
    /\ pc = "cache"
    /\ cache_manager' = clear(cache_manager)
    /\ UNCHANGED <<time_margin_pace, parsed, style_args, style, analyzer, field,
                   analysis>>
    /\ UNCHANGED <<pc, current_race, anauma_db, _anauma_cache, now, results,
                   pool>>
    /\ UNCHANGED <<history, style_stats, evaluators, calls, config_budget,
                   evaluation, betting_plan>>

\* datetime.now() reads one tick later from now on.
Elapse ==
    /\ pc = "cache"
    /\ now < StartDay + MaxElapsed
    /\ now' = now + 1
    /\ UNCHANGED <<time_margin_pace, parsed, style_args, style, analyzer, field,
                   analysis>>
    /\ UNCHANGED <<pc, current_race, anauma_db, _anauma_cache, results, pool>>
    /\ UNCHANGED <<history, style_stats, evaluators, calls, cache_manager,
                   config_budget, evaluation, betting_plan>>

NextCache == Set \/ GetKey \/ Clear \/ Elapse

SpecCache == InitCache /\ [][NextCache]_vars

\* --- BettingStrategy.generate_betting_plan on one evaluation result

\* The largest total_budget of the config, in yen.
MaxBudget == 700

\* The most horses of an evaluation result.
MaxField == 5

\* The numbers 1..n turned r places on.
Turned(n, r) == [i \in 1..n |-> ((i + r - 1) % n) + 1]

\* A ranking: the horses of the numbers given, in order, with final scores
\* (in hundredths) that go down from one place to the next.
Ranking(numbers) ==
    [i \in 1..Len(numbers) |->
        [number |-> numbers[i], name |-> "A", odds |-> 50,
         final_score |-> 9000 - 500 * i]]

\* The evaluation results passed in: nothing, the rankings of up to
\* MaxField horses by ability and by value, each horse with a number of its
\* own, and a result in which two horses carry one number.
SampleEvaluations ==
    {EmptyDict}
      \cup {[ability_results |-> Ranking(Turned(n, a)),
             value_results |-> Ranking(Turned(n, v))] :
                n \in 2..MaxField, a \in 0..(MaxField - 1),
                v \in 0..(MaxField - 1)}
      \cup {[ability_results |-> Ranking(<<1, 2, 3, 4, 4>>),
             value_results |-> Ranking(<<4, 4, 3, 2, 1>>)]}

InitBetting ==
    /\ pc = "plan"
    /\ config_budget \in {None} \cup {Some(b) : b \in 0..MaxBudget}
    /\ evaluation \in SampleEvaluations
    /\ betting_plan = NoPlan
    /\ IdleParser
    /\ IdleStyle
    /\ IdleAnalyzer
    /\ IdleEvaluator
    /\ IdleStats
    /\ IdleProcess
    /\ IdleCacheManager

\* One call of BettingStrategy(config).generate_betting_plan(evaluation).
GenerateBettingPlan ==
    /\ pc = "plan"
    /\ pc' = "planned"
    /\ betting_plan' = generate_betting_plan(config_budget, evaluation)
    /\ UNCHANGED <<time_margin_pace, parsed, style_args, style, analyzer, field,
                   analysis>>
    /\ UNCHANGED <<current_race, anauma_db, _anauma_cache, now, results, pool>>
    /\ UNCHANGED <<history, style_stats, evaluators, calls, cache_manager,
                   config_budget, evaluation>>

NextBetting == GenerateBettingPlan

SpecBetting == InitBetting /\ [][NextBetting]_vars

----------------------------------------------------------------------------
(* Claims *)

\* C2: determine_running_style implements the decision table: no counts ->
\* unknown; front_ratio >= 0.75 -> escape when avg_pos is known and <= 5.0,
\* else leading; [0.40, 0.75) -> leading; [0.15, 0.40) -> chase; below 0.15
\* -> pursue.
C2_DecisionTable ==
    pc = "styled" =>
        LET f == style_args.front_count
            c == style_args.close_count
            t == f + c
            ap == style_args.avg_pos
        IN  /\ t = 0 => style = UNKNOWN
            /\ (t > 0 /\ 4 * f >= 3 * t /\ ap # None /\ Val(ap) <= 500) => style = ESCAPE
            /\ (t > 0 /\ 4 * f >= 3 * t /\ ~(ap # None /\ Val(ap) <= 500)) => style = LEADING
            /\ (t > 0 /\ 5 * f >= 2 * t /\ 4 * f < 3 * t) => style = LEADING
            /\ (t > 0 /\ 20 * f >= 3 * t /\ 5 * f < 2 * t) => style = CHASE
            /\ (t > 0 /\ 20 * f < 3 * t) => style = PURSUE

\* C4: for every token with a corner-position run, the avg_corner_position
\* that parse_pace_data returns is the mean of the run's integers rounded to
\* the nearest integer; without a run it is None.
C4_RoundedMean ==
    (pc = "parsed" /\ ~parsed.raised) =>
        LET positions == CornerPositions(time_margin_pace, 1)
        IN  IF positions = <<>> THEN parsed.avg_pos = None
            ELSE /\ parsed.avg_pos # None
                 /\ 2 * Abs(Val(parsed.avg_pos) * Len(positions) - SumSeq(positions))
                        <= Len(positions)

\* C5: parse_pace_data never raises, whatever the token: what cannot be
\* parsed comes back as None.
C5_NeverRaises == pc = "parsed" => ~parsed.raised

Names == {field[i].name : i \in 1..Len(field)}

\* (m - 1.0) lies within [-max_adj, max_adj], max_adj = min(0.10,
\* adjustment_scale * 1.25); m in ten-thousandths, the comparison in 1e-9.
WithinMaxAdj(m, adjustment_scale) ==
    LET max_adj == IF adjustment_scale * 12500 < 100000000
                   THEN adjustment_scale * 12500 ELSE 100000000
    IN  /\ (m - 10000) * 100000 >= -max_adj
        /\ (m - 10000) * 100000 <= max_adj

\* C1: for any field and any top_n, adjustment_scale and bias_threshold,
\* every multiplier of the returned adjustments lies within
\* [1 - max_adj, 1 + max_adj], max_adj = min(0.10, adjustment_scale * 1.25).
C1_Bounded ==
    pc = "analyzed" =>
        \A name \in Names :
            WithinMaxAdj(analysis.adjustments[name], analyzer.adjustment_scale)

\* C1, amended: the same bound, for every adjustment_scale that is
\* non-negative and a whole multiple of 0.0001 (the precision the
\* multipliers are rounded to).
C1_BoundedOnGrid ==
    (pc = "analyzed" /\ analyzer.adjustment_scale >= 0
        /\ analyzer.adjustment_scale % 10 = 0) =>
        \A name \in Names :
            WithinMaxAdj(analysis.adjustments[name], analyzer.adjustment_scale)

\* A field analysed with a scale above the cap, in which the clip is at
\* work: one horse sits at 1.1 and another at 0.9.
C1_Witness ==
    /\ pc = "analyzed"
    /\ analyzer.adjustment_scale = 20000
    /\ \E a, b \in Names :
          analysis.adjustments[a] = 11000 /\ analysis.adjustments[b] = 9000

AllEqual(values) == \A i, j \in 1..Len(values) : values[i] = values[j]

FrontFeatures == [i \in 1..Len(field) |-> FrontFeature(field[i])]

CloseFeatures == [i \in 1..Len(field) |-> CloseFeature(field[i])]

BestSum(z_scores, k) ==
    LET size == IF k <= Cardinality(DOMAIN z_scores) THEN k
                ELSE Cardinality(DOMAIN z_scores)
        Clipped(S) == LET pick[T \in SUBSET S] ==
                              IF T = {} THEN 0
                              ELSE LET n == CHOOSE n \in T : TRUE
                                   IN  (IF z_scores[n] > 0 THEN z_scores[n] ELSE 0)
                                          + pick[T \ {n}]
                      IN  pick[S]
        sums == {Clipped(S) : S \in {T \in SUBSET DOMAIN z_scores :
                                            Cardinality(T) = size}}
    IN  CHOOSE best \in sums : \A other \in sums : best >= other

\* C8: the label is front-favored exactly when front_top_sum >
\* close_top_sum * (1 + bias_threshold), closer-favored exactly when that
\* fails and close_top_sum > front_top_sum * (1 + bias_threshold), and
\* average otherwise; each top sum is the sum of the top_n largest z-scores
\* of the feature, negative ones counted as 0.
C8_PaceLabelRule ==
    pc = "analyzed" =>
        LET F == BestSum(analysis.metadata.front_z_scores, analyzer.top_n)
            C == BestSum(analysis.metadata.close_z_scores, analyzer.top_n)
            front == F * 100 > C * (100 + analyzer.bias_threshold)
            closer == ~front /\ C * 100 > F * (100 + analyzer.bias_threshold)
        IN  /\ analysis.metadata.front_top_sum = F
            /\ analysis.metadata.close_top_sum = C
            /\ (analysis.pace_label = FRONT_FAVORED) <=> front
            /\ (analysis.pace_label = CLOSER_FAVORED) <=> closer
            /\ (analysis.pace_label = AVERAGE) <=> (~front /\ ~closer)
            /\ analysis.metadata.pace_label = analysis.pace_label

\* A front-favored field of three with top_n = 3: the top 3 take in a
\* negative z-score, which counts as 0.
C8_Witness ==
    /\ pc = "analyzed"
    /\ analyzer.top_n = 3
    /\ Len(field) = 3
    /\ analysis.pace_label = FRONT_FAVORED
    /\ \E name \in Names : analysis.metadata.front_z_scores[name] < 0

Scored == {k \in 1..Len(results) : "pace_analysis" \in DOMAIN results[k]}

\* ranked is ordered by non-increasing final_score, and results of equal
\* final_score are in the order of the input (a horse's number is its place
\* in the input).
IsStablyRanked(ranked) ==
    \A i, j \in 1..Len(ranked) :
        i < j =>
            \/ ranked[i].final_score > ranked[j].final_score
            \/ /\ ranked[i].final_score = ranked[j].final_score
               /\ ranked[i].number < ranked[j].number

\* C6: in every result of evaluate_horses, ability_results and
\* value_results are each ordered by non-increasing final_score, and two
\* horses of equal final_score keep the relative order they have in the
\* input list.
C6_StableRanking ==
    \A k \in Scored :
        /\ IsStablyRanked(results[k].ability_results)
        /\ IsStablyRanked(results[k].value_results)

\* C6 witness: a result in which two horses tie on final_score and the
\* sort moved a later horse of the input ahead of an earlier one.
C6_Witness ==
    \E k \in Scored :
        LET ranked == results[k].ability_results
        IN  /\ \E i, j \in 1..Len(ranked) :
                    i < j /\ ranked[i].final_score = ranked[j].final_score
            /\ \E i, j \in 1..Len(ranked) :
                    i < j /\ ranked[i].number > ranked[j].number

\* C7: for the fixed race and the fixed dark-horse store, any two calls of
\* evaluate_horses return identical results, whatever the clock shows at
\* each call.
C7_SameScoresWhenever ==
    \A i, j \in 1..Len(results) : results[i] = results[j]

\* C9: a horse with no past race has the style figures (0, 0, None, None),
\* is classified unknown, and the multiplier evaluate_horses applies to its
\* final score is 1.0, whatever the other horses of the field are.
C9_EmptyHistoryNeutral ==
    \A k \in Scored :
        \A i \in 1..Len(current_race.horses) :
            LET horse == current_race.horses[i]
                stats == calculate_running_style_stats(horse.recent_races)
            IN  horse.recent_races = <<>> =>
                    /\ stats.front_count = 0 /\ stats.close_count = 0
                    /\ stats.avg_pos = None /\ stats.avg_up = None
                    /\ determine_running_style(stats.front_count, stats.close_count,
                                               stats.avg_pos, stats.avg_up) = UNKNOWN
                    /\ AppliedAdjustment(results[k].pace_analysis.adjustments,
                                         horse) = 10000

\* The score breakdowns call k of evaluate_horses returned, of both
\* profiles.
Breakdowns(k) ==
    {results[k].ability_results[i] : i \in 1..Len(results[k].ability_results)}
        \cup {results[k].value_results[i] :
                  i \in 1..Len(results[k].value_results)}

\* A rounded sub-score (in tenths) within 0 to 100.
InRange(score) == 0 <= score /\ score <= 1000

\* C11: every named sub-score of a score breakdown (performance,
\* course_fit, track_condition, weight_change, interval, odds_value,
\* dark_horse) lies in the range 0 to 100.
C11_SubScoresInRange ==
    \A k \in Scored :
        \A r \in Breakdowns(k) :
            /\ InRange(r.performance_score)
            /\ InRange(r.course_fit_score)
            /\ InRange(r.track_condition_score)
            /\ InRange(r.weight_change_score)
            /\ InRange(r.interval_score)
            /\ InRange(r.odds_value_score)
            /\ InRange(r.dark_horse_score)

\* C11, amended: every named sub-score but interval lies in the range 0 to
\* 100 (dark_horse as long as the stored scores do); the interval score is
\* one of -10, -5, 0 and 15.
C11_SubScoresInRangeButInterval ==
    \A k \in Scored :
        \A r \in Breakdowns(k) :
            /\ InRange(r.performance_score)
            /\ InRange(r.course_fit_score)
            /\ InRange(r.track_condition_score)
            /\ InRange(r.weight_change_score)
            /\ r.interval_score \in {-100, -50, 0, 150}
            /\ InRange(r.odds_value_score)
            /\ InRange(r.dark_horse_score)

\* C11 witness: a breakdown whose interval score is negative and whose odds
\* value score is at the upper limit.
C11_Witness ==
    \E k \in Scored :
        \E r \in Breakdowns(k) :
            r.interval_score < 0 /\ r.odds_value_score = 1000

\* The multipliers the final score is compared under, within [0.9, 1.1].
AdjustmentGrid == {9000, 9238, 9500, 10000, 10500, 10762, 11000}

\* The final score of horse i of current_race under the weight profile
\* weights, for each multiplier of the grid.
FinalsOverGrid(i, weights) ==
    [a \in AdjustmentGrid |->
        _evaluate_horse(current_race.horses[i], current_race, weights, a, now,
                        search(_anauma_cache, anauma_db,
                               current_race.horses[i].name)).final_score]

\* finals does not decrease as the multiplier grows.
NonDecreasing(finals) ==
    \A a, b \in DOMAIN finals : a <= b => finals[a] <= finals[b]

\* C12: with the horse, the race and the weight profile fixed, the
\* final_score of _evaluate_horse is non-decreasing in the pace adjustment
\* multiplier over [0.9, 1.1].
C12_MonotoneInAdjustment ==
    \A k \in Scored :
        \A i \in 1..Len(current_race.horses) :
            /\ NonDecreasing(FinalsOverGrid(i, ability_weights))
            /\ NonDecreasing(FinalsOverGrid(i, value_weights))

\* C12 witness: a horse that was scored under a multiplier above 1.0 and
\* whose final score is strictly larger at 1.1 than at 0.9.
C12_Witness ==
    \E k \in Scored :
        \E i \in 1..Len(current_race.horses) :
            /\ AppliedAdjustment(results[k].pace_analysis.adjustments,
                                 current_race.horses[i]) > 10000
            /\ FinalsOverGrid(i, ability_weights)[9000]
                   < FinalsOverGrid(i, ability_weights)[11000]

\* The places in the input of the horses of ranked.
NumbersOf(ranked) == {ranked[j].number : j \in 1..Len(ranked)}

\* The places of the entries of current_race that validate_horse_data
\* accepts.
ValidPlaces ==
    {i \in 1..Len(current_race.horses) :
        validate_horse_data(current_race.horses[i])}

\* C13: an entry that lacks a required key (name, number or odds) is in
\* neither ability_results nor value_results, while the valid entries are
\* scored.
C13_InvalidEntriesExcluded ==
    \A k \in Scored :
        /\ NumbersOf(results[k].ability_results) = ValidPlaces
        /\ NumbersOf(results[k].value_results) = ValidPlaces

\* C14: no call of evaluate_horses ends in an exception, and every result
\* has a score entry for every structurally valid horse of the input.
C14_NeverAborts ==
    \A k \in 1..Len(results) :
        /\ "raised" \notin DOMAIN results[k]
        /\ Get(current_race, "horses", <<>>) # <<>> =>
               /\ ValidPlaces \subseteq NumbersOf(results[k].ability_results)
               /\ ValidPlaces \subseteq NumbersOf(results[k].value_results)

\* C15: evaluate_horses on a race whose horse list is empty or missing
\* returns the empty result (ability_results and value_results both
\* empty) and does not raise.
C15_EmptyFieldEmptyResult ==
    Get(current_race, "horses", <<>>) = <<>> =>
        \A k \in 1..Len(results) :
            results[k] = [ability_results |-> <<>>, value_results |-> <<>>]

\* C15 witness: evaluate_horses has returned for the race that has no
\* 'horses' key.
C15_Witness ==
    /\ "horses" \notin DOMAIN current_race
    /\ Len(results) >= 1
    /\ results[1].ability_results = <<>>

\* The odds bucket of the dark-horse score, in tenths.
OddsBucket(horse) ==
    IF horse.odds > 200 THEN 800 ELSE IF horse.odds > 100 THEN 650 ELSE 400

\* C16: the dark_horse sub-score is the stored evaluation_score whenever
\* the name is in the store, for every stored value including 0, and the
\* odds bucket otherwise (80 above 20, 65 above 10, else 40).
C16_DarkHorseRule ==
    \A k \in Scored :
        \A r \in Breakdowns(k) :
            r.dark_horse_score =
                IF r.name \in DOMAIN anauma_db
                THEN anauma_db[r.name].evaluation_score * 10
                ELSE OddsBucket(current_race.horses[r.number])

\* The trend of a history listed most recent first: +15 for each of the
\* two latest pairs in which the more recent finish is the smaller, -10 for
\* each in which it is the larger.
ImprovingTrend(races) ==
    LET step(i) == IF races[i].result < races[i + 1].result THEN 15
                   ELSE IF races[i].result > races[i + 1].result THEN -10
                   ELSE 0
    IN  IF Len(races) >= 3 THEN step(1) + step(2) ELSE 0

\* C19: the trend term of past_performance adds +15 for each compared pair
\* of consecutive finishes in which the horse is improving (the more recent
\* race has the smaller finish position) and -10 for each in which it is
\* worsening, the past races being ordered most recent first.
C19_TrendRewardsImproving ==
    \A k \in Scored :
        \A i \in 1..Len(current_race.horses) :
            Trend(current_race.horses[i].recent_races)
                = ImprovingTrend(current_race.horses[i].recent_races)

\* The penalty (in tenths) for a step up of diff grade levels.
StepPenalty(diff) ==
    IF diff <= 0 THEN 0
    ELSE IF diff = 1 THEN -50
    ELSE IF diff = 2 THEN -100
    ELSE -150

\* C20: the class penalty is 0 in every value-profile result; under the
\* ability profile it is -5, -10 or -15 when the level of the current grade
\* exceeds the level inferred for the last race (that of the first grade
\* of grade_levels its name or class contains, 2 if none) by 1, 2 or 3 or
\* more, and 0 when it does not or the horse has no past race.
C20_ClassPenaltyRule ==
    \A k \in Scored :
        /\ \A j \in 1..Len(results[k].value_results) :
               results[k].value_results[j].class_penalty = 0
        /\ \A j \in 1..Len(results[k].ability_results) :
               LET r == results[k].ability_results[j]
                   races == current_race.horses[r.number].recent_races
               IN  r.class_penalty =
                       IF races = <<>> THEN 0
                       ELSE StepPenalty(
                                GradeLevel(current_race.race_info.grade)
                                    - LastLevel(races[1]))

\* C20 witness: a horse one step up from an open race, penalised by 5 under
\* the ability profile and not at all under the value profile.
C20_Witness ==
    \E k \in Scored :
        /\ current_race.horses[1].recent_races # <<>>
        /\ GradeLevel(current_race.race_info.grade)
               - LastLevel(current_race.horses[1].recent_races[1]) = 1
        /\ results[k].ability_results[1].class_penalty = -50
        /\ results[k].value_results[1].class_penalty = 0

\* The tasks whose search found no entry in _anauma_cache and that are
\* about to store one in it.
PendingStores == {i \in DOMAIN pool.status : pool.status[i] = "missed"}

\* C17: while the per-horse workers run, the dark-horse lookup only reads
\* shared state, so that no interleaving reaches a state in which two
\* workers are modifying the same cache at once.
C17_NoTwoStoresAtOnce == Cardinality(PendingStores) <= 1

\* C18: the ranked lists evaluate_horses returns are the same for every
\* order in which the workers start and end their tasks: each call returns
\* what the evaluation of the horses one after the other in input order
\* returns, ties included.
C18_RankingIndependentOfSchedule ==
    \A k \in 1..Len(results) :
        results[k] = evaluate_horses(EmptyDict, anauma_db, current_race, now)

\* C18 witness: a call has returned a ranking with a tie on final_score,
\* and in its first pass a later task of the input ended before an earlier
\* one.
C18_Witness ==
    /\ pool.phase = "idle"
    /\ Len(results) >= 1
    /\ "pace_analysis" \in DOMAIN results[Len(results)]
    /\ \E i, j \in 1..Len(pool.orders[1]) :
           i < j /\ pool.orders[1][i] > pool.orders[1][j]
    /\ \E i, j \in 1..Len(results[Len(results)].ability_results) :
           /\ i < j
           /\ results[Len(results)].ability_results[i].final_score
                  = results[Len(results)].ability_results[j].final_score

\* The interval score, in tenths, the rule gives for d days.
IntervalRule(d) ==
    IF 14 <= d /\ d <= 42 THEN 150
    ELSE IF 7 <= d /\ d <= 13 THEN -50
    ELSE IF 43 <= d /\ d <= 84 THEN 0
    ELSE -100

\* C21: the interval score is +15 for 14 <= d <= 42 days from the last race
\* to the race, -5 for 7 <= d <= 13, 0 for 43 <= d <= 84 and -10 for every
\* other d, negative ones too; it is 0 when a date is missing or cannot be
\* read, or when the horse has no past race.
C21_IntervalRule ==
    \A k \in Scored :
        \A r \in Breakdowns(k) :
            r.interval_score =
                IF current_race.horses[1].recent_races = <<>> THEN 0
                ELSE IF current_race.race_info.date = None THEN 0
                ELSE IF current_race.horses[1].recent_races[1].date = None
                THEN 0
                ELSE IntervalRule(
                         Val(current_race.race_info.date)
                           - Val(current_race.horses[1].recent_races[1].date))

\* C21 witness: a race scored for a horse whose last race is dated after
\* the race, with an interval score of -10.
C21_Witness ==
    \E k \in Scored :
        /\ current_race.race_info.date # None
        /\ current_race.horses[1].recent_races # <<>>
        /\ current_race.horses[1].recent_races[1].date # None
        /\ Val(current_race.horses[1].recent_races[1].date)
               > Val(current_race.race_info.date)
        /\ results[k].ability_results[1].interval_score = -100

\* The races among the first five of the history whose pace log gives
\* corner positions.
WithPositions ==
    {i \in 1..Min(5, Len(history)) :
        parse_pace_data(history[i].time_margin_pace).avg_pos # None}

\* C22: calculate_running_style_stats looks at the first five races of the
\* history only; each of them with position data counts as front (average
\* corner position <= 5) or as close (> 5), the others as neither, so
\* front_count + close_count is the number of them with position data and
\* at most 5.
C22_TalliesOverFiveRaces ==
    pc = "counted" =>
        /\ style_stats.front_count =
               Cardinality({i \in WithPositions :
                   Val(parse_pace_data(history[i].time_margin_pace).avg_pos) <= 5})
        /\ style_stats.close_count =
               Cardinality({i \in WithPositions :
                   Val(parse_pace_data(history[i].time_margin_pace).avg_pos) > 5})
        /\ style_stats.front_count + style_stats.close_count
               = Cardinality(WithPositions)
        /\ style_stats.front_count + style_stats.close_count <= 5

\* C22 witness: a history of more than five races, the sixth with position
\* data, one of the first five without, tallied.
C22_Witness ==
    /\ pc = "counted"
    /\ Len(history) > 5
    /\ history[6] = FrontRace
    /\ Cardinality(WithPositions) = 4
    /\ style_stats.front_count = 1
    /\ style_stats.close_count = 3

\* C24: no state carries from one race evaluation to the next: what
\* evaluate_horses returns for a race is what it returns with no evaluation
\* before it, on the same evaluator or on another one, whatever the calls
\* made before.
C24_NoCarryOver ==
    \A k \in 1..Len(calls) :
        results[k] = evaluate_horses(EmptyDict, evaluators[calls[k].self],
                                     calls[k].race_data, calls[k].today)

\* C24 witness: one race evaluated on two evaluators whose stores differ,
\* the second call finding the entries of the first in the cache, with two
\* rankings.
C24_Witness ==
    /\ Len(calls) = 2
    /\ calls[1].self # calls[2].self
    /\ evaluators[calls[1].self] # evaluators[calls[2].self]
    /\ calls[1].race_data = calls[2].race_data
    /\ calls[1].today = calls[2].today
    /\ results[1] # results[2]

\* The horses of the call k whose past races give no corner position.
WithoutPositionData(k) ==
    {i \in 1..Len(calls[k].race_data.horses) :
        /\ calls[k].race_data.horses[i].recent_races # <<>>
        /\ calculate_running_style_stats(
               calls[k].race_data.horses[i].recent_races).front_count = 0
        /\ calculate_running_style_stats(
               calls[k].race_data.horses[i].recent_races).close_count = 0}

\* C26: a horse whose past races give no position data (front_count =
\* close_count = 0) gets the multiplier 1.0 from the analysis of
\* evaluate_horses, whatever the pace label.
C26_NoPositionDataNeutral ==
    \A k \in 1..Len(calls) :
        \A i \in WithoutPositionData(k) :
            results[k].pace_analysis.adjustments[
                calls[k].race_data.horses[i].name] = 10000

\* C28: with max_entries >= 1 the cache never holds more than max_entries
\* entries, whatever calls of set, get and clear were made.
C28_SizeBounded ==
    cache_manager.max_entries >= 1 =>
        Len(cache_manager._cache) <= cache_manager.max_entries

\* C28 witness: a full cache of two entries set at different times, the
\* older of which a get has touched since the other was set.
C28_Witness ==
    /\ pc = "cache"
    /\ cache_manager.max_entries = 2
    /\ Len(cache_manager._cache) = 2
    /\ cache_manager._cache[1].created_at < cache_manager._cache[2].created_at
    /\ cache_manager._cache[1].last_access > cache_manager._cache[2].last_access
    /\ cache_manager.hit_count > 0

\* last_access of key in cache.
LastAccess(cache, key) == cache[IndexOf(cache, key)].last_access

\* What C29 says of a call set(key, value) that turned the cache before
\* into the cache after, with max_entries the bound.
SetAsClaimed(before, after, max_entries, key, value) ==
    /\ Keys(before) \ Keys(after) # {} =>
           /\ key \notin Keys(before)
           /\ Len(before) >= max_entries
           /\ Cardinality(Keys(before) \ Keys(after)) = 1
           /\ \A lost \in Keys(before) \ Keys(after) :
                  \A k \in Keys(before) :
                      LastAccess(before, lost) <= LastAccess(before, k)
    /\ key \in Keys(before) =>
           /\ Keys(after) = Keys(before)
           /\ after[IndexOf(after, key)].value = value

\* C29: set evicts an entry only when it inserts a new key into a full
\* cache, and then the one entry whose last access is the oldest; a set of
\* a key the cache holds replaces the value and leaves every other key in.
C29_EvictsOnlyForNewKey ==
    [][\A key \in CacheKeys, value \in CacheValues :
          (pc = "cache"
             /\ cache_manager' = set(cache_manager, key, value, now)) =>
              SetAsClaimed(cache_manager._cache, cache_manager'._cache,
                           cache_manager.max_entries, key, value)]_vars

\* The amounts of the bets of the plan returned.
PlanAmounts == Amounts(betting_plan.purchase_plan)

\* The budget of the call.
PlanBudget ==
    IF config_budget = None THEN default_budget ELSE Val(config_budget)

\* C23: for a budget of 100 or more and a result with at least 3 horses in
\* the ability ranking, the plan uses exactly the budget: total_bet is the
\* sum of the amounts of purchase_plan, equals the budget and never exceeds
\* it.
C23_UsesWholeBudget ==
    (pc = "planned" /\ PlanBudget >= 100
       /\ Len(Get(evaluation, "ability_results", <<>>)) >= 3) =>
        /\ "error" \notin DOMAIN betting_plan
        /\ betting_plan.total_bet = SumSeq(PlanAmounts)
        /\ betting_plan.total_bet = PlanBudget

\* The numbers of the horses of a list are pairwise distinct.
DistinctNumbers(horses) ==
    \A i, j \in 1..Len(horses) : i # j => horses[i].number # horses[j].number

\* C30: in every plan returned for rankings with distinct horse numbers,
\* each amount is at least 100, the bets are on pairwise distinct horses,
\* and the anaume horses are none of the honmei and taikou horses.
C30_PlanWellFormed ==
    (pc = "planned" /\ "error" \notin DOMAIN betting_plan
       /\ DistinctNumbers(evaluation.ability_results)
       /\ DistinctNumbers(evaluation.value_results)) =>
        /\ \A i \in 1..Len(PlanAmounts) : PlanAmounts[i] >= 100
        /\ DistinctNumbers([i \in 1..Len(betting_plan.purchase_plan) |->
                               betting_plan.purchase_plan[i].horses[1]])
        /\ \A i \in 1..Len(betting_plan.horses.anaume) :
               betting_plan.horses.anaume[i].number
                   \notin {betting_plan.horses.honmei.number,
                           betting_plan.horses.taikou[1].number,
                           betting_plan.horses.taikou[2].number}

\* C30 witness: a plan of five bets, two of them on anaume horses, for
\* rankings with distinct numbers in different orders.
C30_Witness ==
    /\ pc = "planned"
    /\ "error" \notin DOMAIN betting_plan
    /\ DistinctNumbers(evaluation.ability_results)
    /\ DistinctNumbers(evaluation.value_results)
    /\ evaluation.value_results[1].number
           = evaluation.ability_results[1].number
    /\ Len(betting_plan.purchase_plan) = 5
    /\ Len(betting_plan.horses.anaume) = 2

\* ranked holds one result for each horse of horses: as many results as
\* horses, the numbers of the results are the numbers of the horses, and a
\* result carries the name of the horse of its number.
OnePerHorse(ranked, horses) ==
    /\ Len(ranked) = Len(horses)
    /\ {ranked[j].number : j \in 1..Len(ranked)} = 1..Len(horses)
    /\ \A j \in 1..Len(ranked) : ranked[j].name = horses[ranked[j].number].name

\* C25: for a race with horses, ability_results and value_results of
\* evaluate_horses each hold exactly one entry for each horse passed in, so
\* both cover the same horses.
C25_OneEntryPerHorse ==
    \A k \in Scored :
        /\ OnePerHorse(results[k].ability_results, current_race.horses)
        /\ OnePerHorse(results[k].value_results, current_race.horses)
        /\ {results[k].ability_results[j].number :
                j \in 1..Len(results[k].ability_results)}
             = {results[k].value_results[j].number :
                    j \in 1..Len(results[k].value_results)}

\* C25 witness: three horses ranked in one order by ability and in another
\* by value.
C25_Witness ==
    \E k \in Scored :
        /\ Len(current_race.horses) = 3
        /\ Len(results[k].ability_results) = 3
        /\ results[k].ability_results[1].number
               # results[k].value_results[1].number

\* The level of the grade the last race names: the longest grade name its
\* name or class contains decides.
NamedLevel(last_race) ==
    IF \/ Contains(<<"G", "I", "I", "I">>, last_race.race)
       \/ Contains(<<"G", "I", "I", "I">>, last_race.class)
    THEN 3
    ELSE IF \/ Contains(<<"G", "I", "I">>, last_race.race)
            \/ Contains(<<"G", "I", "I">>, last_race.class)
    THEN 4
    ELSE LastLevel(last_race)

\* C27: the level inferred for the last race is that of the grade it
\* names: 3 for a last race whose name or class contains "GIII", 4 for one
\* that contains "GII", so a horse that comes from a GIII to a GI gets the
\* penalty of two steps, -10.
C27_LastGradeAsNamed ==
    \A k \in Scored :
        \A j \in 1..Len(results[k].ability_results) :
            current_race.horses[results[k].ability_results[j].number]
                    .recent_races # <<>> =>
                results[k].ability_results[j].class_penalty =
                    StepPenalty(
                        GradeLevel(current_race.race_info.grade)
                          - NamedLevel(
                                current_race.horses[
                                    results[k].ability_results[j].number]
                                        .recent_races[1]))

====
